---- MODULE Spec2Model ----
(***************************************************************************)
(* A model of graph_visualizer's core: the Graph abstract data type        *)
(* (src/src/graph.rs) and the resumable Ford-Fulkerson step machine        *)
(* (src/src/graph_flows.rs), driven by a caller that owns an optional      *)
(* graph, the algorithm state and the source/sink texts, as AppModel does  *)
(* (src/src/graph_app.rs).                                                 *)
(*                                                                         *)
(* Representation.  Option<T>: None is <<>>, Some(x) is <<x>>.  A BTreeMap *)
(* is a function whose DOMAIN is its key set.  A BTreeSet<Edge> is a set   *)
(* of [to, weight] records; Edge's Eq/Ord look at `to` only, so the set    *)
(* operations below compare `to` only.  Weights are the I32 variant of     *)
(* EdgeWeights (is_float_weights is carried and always FALSE); i32         *)
(* arithmetic keeps its 32-bit width.  A String is a sequence of           *)
(* one-character strings.                                                  *)
(***************************************************************************)
EXTENDS Integers, Sequences, FiniteSets, TLC

VARIABLES
    graph,          \* AppModel.graph : Option<Graph>
    state,          \* AppModel.graph_algorithm_state : AlgorithmState
    source_text,    \* AppModel.source_text
    sink_text,      \* AppModel.sink_text
    call,           \* the last call made and what it returned
    build,          \* "any" until an i32 overflow shows the build profile:
                    \* "debug" (overflow panics) or "release" (overflow wraps)
    run             \* history of the current run of the step machine

vars == <<graph, state, source_text, sink_text, call, build, run>>

----------------------------------------------------------------------------
(* Bounds of the model *)

\* vertex ids of the graph-mutation specification are 1..MaxVertex
MaxVertex == 2
\* edge weights offered to add_edge are 1..MaxWeight
MaxWeight == 2
\* stored edge records (an undirected edge stores two) the mutation actions build up to
MaxEdges == 2
\* wrapped i32 additions a release-build run is followed through
MaxWraps == 1
\* the flow specification starts from graphs on the vertices 1..FlowVertices
FlowVertices == 3
\* with at most FlowMaxArcs arcs
FlowMaxArcs == 3
\* of capacity 0..MaxCap or i32::MAX
MaxCap == 1
\* capacities 1..ScenarioMaxCap on the arcs of the scenario's graph shape
ScenarioMaxCap == 3
\* edges of a graph loaded from a file
AppMaxArcs == 1

----------------------------------------------------------------------------
(* Option *)

None == <<>>
Some(x) == <<x>>
IsSome(o) == o # <<>>
Unwrap(o) == o[1]

(* i32 arithmetic: the mathematical result when it fits, else wrapped mod 2^32
   (release) with `ovf` set (debug panics on it). *)

I32Max == 2147483647
I32Min == (-2147483647) - 1

AddOverflows(x, y) ==
    \/ y > 0 /\ x > I32Max - y
    \/ y < 0 /\ x < I32Min - y

WrappingAdd(x, y) ==
    IF y > 0 /\ x > I32Max - y THEN ((x - I32Max) - 1) + ((y - I32Max) - 1)
    ELSE IF y < 0 /\ x < I32Min - y THEN ((x + I32Max) + 1) + ((y + I32Max) + 1)
    ELSE x + y

SubOverflows(x, y) ==
    \/ y < 0 /\ x > I32Max + y
    \/ y > 0 /\ x < I32Min + y

WrappingSub(x, y) ==
    IF y < 0 /\ x > I32Max + y THEN ((x - I32Max) - 1) - ((y + I32Max) + 1)
    ELSE IF y > 0 /\ x < I32Min + y THEN ((x + I32Max) + 1) - ((y - I32Max) - 1)
    ELSE x - y

min(x, y) == IF y < x THEN y ELSE x

----------------------------------------------------------------------------
(* BTreeMap and BTreeSet<Edge> *)

MapInsert(m, k, v) == [x \in (DOMAIN m) \cup {k} |-> IF x = k THEN v ELSE m[x]]
MapRemove(m, k) == [x \in (DOMAIN m) \ {k} |-> m[x]]
EmptyMap == [x \in {} |-> 0]

Edge_new(to, weight) == [to |-> to, weight |-> weight]
Vertex_new(id, label) == [id |-> id, label |-> label]

\* BTreeSet::contains / insert / remove under Edge's equality (by `to`)
SetContains(set, e) == \E x \in set : x.to = e.to
SetInsert(set, e) == IF SetContains(set, e) THEN set ELSE set \cup {e}
SetRemove(set, e) == {x \in set : x.to # e.to}

\* iteration order of a BTreeSet<Edge>: ascending `to`
RECURSIVE SetIter(_)
Edge_cmp_first(set) == CHOOSE e \in set : \A x \in set : e.to <= x.to
\* a faulty iteration order: descending `to`
RECURSIVE SetIter_descending(_)
SetIter_descending(set) ==
    IF set = {} THEN <<>>
    ELSE LET e == CHOOSE e \in set : \A x \in set : e.to >= x.to
         IN <<e>> \o SetIter_descending(set \ {e})

SetIter(set) ==
    IF set = {} THEN <<>>
    ELSE LET e == Edge_cmp_first(set) IN <<e>> \o SetIter(set \ {e})

\* iteration order of a BTreeMap's keys: ascending
RECURSIVE KeysIter(_)
KeysIter(keys) ==
    IF keys = {} THEN <<>>
    ELSE LET k == CHOOSE k \in keys : \A x \in keys : k <= x
         IN <<k>> \o KeysIter(keys \ {k})

----------------------------------------------------------------------------
(* Graph (src/src/graph.rs).  Every mutating method returns [g, ret]: the
   graph after the call and "Ok" or the error's name. *)

Graph_new(is_directed, is_weighted, is_float_weights) ==
    [vertices |-> EmptyMap, edges |-> EmptyMap, is_directed |-> is_directed,
     is_weighted |-> is_weighted, is_float_weights |-> is_float_weights]

Ok(g) == [g |-> g, ret |-> "Ok"]
Err(g, e) == [g |-> g, ret |-> e]

\* a faulty add_vertex that empties the adjacency set before it reports VertexExists
add_vertex_clobbers(g, v) ==
    IF v.id \in DOMAIN g.vertices
    THEN Err([g EXCEPT !.edges = MapInsert(g.edges, v.id, {})], "VertexExists")
    ELSE Ok([g EXCEPT !.edges = MapInsert(g.edges, v.id, {}),
                      !.vertices = MapInsert(g.vertices, v.id, v)])

add_vertex(g, v) ==
    IF v.id \in DOMAIN g.vertices THEN Err(g, "VertexExists")
    ELSE Ok([g EXCEPT !.edges = MapInsert(g.edges, v.id, {}),
                      !.vertices = MapInsert(g.vertices, v.id, v)])

\* a faulty remove_vertex that leaves the edges pointing at the vertex in place
remove_vertex_keeps_incoming(g, i) ==
    IF i \notin DOMAIN g.vertices THEN Err(g, "VertexNotFound")
    ELSE Ok([g EXCEPT !.edges = MapRemove(g.edges, i),
                      !.vertices = MapRemove(g.vertices, i)])

\* a faulty remove_vertex that leaves the vertex's own adjacency set in place
remove_vertex_keeps_adjacency(g, i) ==
    IF i \notin DOMAIN g.vertices THEN Err(g, "VertexNotFound")
    ELSE Ok([g EXCEPT !.edges = [k \in DOMAIN g.edges |->
                                   SetRemove(g.edges[k], Edge_new(i, None))],
                      !.vertices = MapRemove(g.vertices, i)])

remove_vertex(g, i) ==
    IF i \notin DOMAIN g.vertices THEN Err(g, "VertexNotFound")
    ELSE LET rev_e == Edge_new(i, None)
             stripped == [k \in DOMAIN g.edges |->
                            IF k \in DOMAIN g.vertices
                            THEN SetRemove(g.edges[k], rev_e) ELSE g.edges[k]]
         IN Ok([g EXCEPT !.edges = MapRemove(stripped, i),
                         !.vertices = MapRemove(g.vertices, i)])

\* Result<&BTreeSet<Edge>, _> and Result<&Edge, _> as [ret, val]
get_edge_list(g, from) ==
    IF from \in DOMAIN g.edges THEN [ret |-> "Ok", val |-> g.edges[from]]
    ELSE [ret |-> "VertexNotFound", val |-> {}]

get_edge(g, from, to) ==
    LET l == get_edge_list(g, from) IN
    IF l.ret # "Ok" THEN [ret |-> l.ret, val |-> Edge_new(to, None)]
    ELSE IF SetContains(l.val, Edge_new(to, None))
         THEN [ret |-> "Ok", val |-> CHOOSE x \in l.val : x.to = to]
         ELSE [ret |-> "EdgeNotFound", val |-> Edge_new(to, None)]

\* a faulty add_edge that stores the edge on one side only
add_edge_one_sided(g, from, e) ==
    IF SetContains(g.edges[from], e) THEN Err(g, "EdgeExists")
    ELSE Ok([g EXCEPT !.edges = [g.edges EXCEPT ![from] = SetInsert(@, e)]])

add_edge_undirected(g, from, e) ==
    LET rev_e == Edge_new(from, e.weight) IN
    IF SetContains(g.edges[from], e) \/ SetContains(g.edges[e.to], rev_e)
    THEN Err(g, "EdgeExists")
    ELSE LET e1 == [g.edges EXCEPT ![e.to] = SetInsert(@, rev_e)]
             e2 == [e1 EXCEPT ![from] = SetInsert(@, e)]
         IN Ok([g EXCEPT !.edges = e2])

add_edge_directed(g, from, e) ==
    IF SetContains(g.edges[from], e) THEN Err(g, "EdgeExists")
    ELSE Ok([g EXCEPT !.edges = [g.edges EXCEPT ![from] = SetInsert(@, e)]])

\* a faulty add_edge that does not compare the weight with the is_weighted flag
add_edge_any_weight(g, from, e) ==
    IF from \notin DOMAIN g.vertices \/ e.to \notin DOMAIN g.vertices
    THEN Err(g, "SomeVerticesNotFound")
    ELSE IF g.is_directed THEN add_edge_directed(g, from, e)
    ELSE add_edge_undirected(g, from, e)

\* a faulty add_edge that looks for the endpoints before it compares the weight
\* with the flag
add_edge_endpoints_first(g, from, e) ==
    IF from \notin DOMAIN g.vertices \/ e.to \notin DOMAIN g.vertices
    THEN Err(g, "SomeVerticesNotFound")
    ELSE IF IsSome(e.weight) /\ ~g.is_weighted THEN Err(g, "WeightedEdgeInUnweightedGraph")
    ELSE IF ~IsSome(e.weight) /\ g.is_weighted THEN Err(g, "UnweightedEdgeInWeightedGraph")
    ELSE IF g.is_directed THEN add_edge_directed(g, from, e)
    ELSE add_edge_undirected(g, from, e)

add_edge(g, from, e) ==
    IF IsSome(e.weight) /\ ~g.is_weighted THEN Err(g, "WeightedEdgeInUnweightedGraph")
    ELSE IF ~IsSome(e.weight) /\ g.is_weighted THEN Err(g, "UnweightedEdgeInWeightedGraph")
    ELSE IF from \notin DOMAIN g.vertices \/ e.to \notin DOMAIN g.vertices
         THEN Err(g, "SomeVerticesNotFound")
    ELSE IF g.is_directed THEN add_edge_directed(g, from, e)
    ELSE add_edge_undirected(g, from, e)

\* a faulty remove_edge that leaves the mirror edge in place
remove_edge_keep_mirror(g, from, to) == g

\* a faulty remove_edge that removes the reverse arc of a directed graph too
remove_edge_both_ways(g, from, to) ==
    [g EXCEPT !.edges = [g.edges EXCEPT ![to] = SetRemove(@, Edge_new(from, None))]]

remove_edge_mirror(g, from, to) ==
    IF ~g.is_directed
    THEN [g EXCEPT !.edges = [g.edges EXCEPT ![to] = SetRemove(@, Edge_new(from, None))]]
    ELSE g

remove_edge(g, from, to) ==
    IF from \notin DOMAIN g.vertices \/ to \notin DOMAIN g.vertices
    THEN Err(g, "SomeVerticesNotFound")
    ELSE LET e == Edge_new(to, None) IN
         IF ~SetContains(g.edges[from], e) THEN Err(g, "EdgeNotFound")
         ELSE LET g1 == [g EXCEPT !.edges = [g.edges EXCEPT ![from] = SetRemove(@, e)]]
              IN Ok(remove_edge_mirror(g1, from, to))

----------------------------------------------------------------------------
(* <i32 as FromStr>::from_str, on a String given as a sequence of characters:
   an optional sign, then decimal digits accumulated with checked arithmetic. *)

DigitValue(c) ==
    CASE c = "0" -> 0 [] c = "1" -> 1 [] c = "2" -> 2 [] c = "3" -> 3
      [] c = "4" -> 4 [] c = "5" -> 5 [] c = "6" -> 6 [] c = "7" -> 7
      [] c = "8" -> 8 [] c = "9" -> 9 [] OTHER -> -1

ParseFail == [ok |-> FALSE, val |-> 0]

RECURSIVE parse_digits(_, _, _)
parse_digits(digits, acc, positive) ==
    IF digits = <<>> THEN [ok |-> TRUE, val |-> acc]
    ELSE LET d == DigitValue(Head(digits)) IN
         IF d < 0 THEN ParseFail
         ELSE IF positive
              THEN IF acc > I32Max \div 10 \/ acc * 10 > I32Max - d THEN ParseFail
                   ELSE parse_digits(Tail(digits), acc * 10 + d, TRUE)
              ELSE IF acc < -(I32Max \div 10) \/ acc * 10 < I32Min + d THEN ParseFail
                   ELSE parse_digits(Tail(digits), acc * 10 - d, FALSE)

parse(text) ==
    IF text = <<>> \/ text = <<"+">> \/ text = <<"-">> THEN ParseFail
    ELSE IF Head(text) = "+" THEN parse_digits(Tail(text), 0, TRUE)
    ELSE IF Head(text) = "-" THEN parse_digits(Tail(text), 0, FALSE)
    ELSE parse_digits(text, 0, TRUE)

----------------------------------------------------------------------------
(* algorithm_step (src/src/graph_flows.rs).  An arm returns
   [kind, err, state, ovf]: kind is "Ok" (state is the new AlgorithmState),
   "Err" (err names the GraphError) or "Panic" (an unwrap failed); ovf says
   that an i32 addition or subtraction overflowed on the way. *)

NotStarted == [tag |-> "NotStarted"]
Step(data) == [tag |-> "Step", data |-> data]
Finished(data) == [tag |-> "Finished", data |-> data]

RetOk(st, ovf) == [kind |-> "Ok", err |-> "", state |-> st, ovf |-> ovf]
RetErr(e) == [kind |-> "Err", err |-> e, state |-> NotStarted, ovf |-> FALSE]
RetPanic == [kind |-> "Panic", err |-> "", state |-> NotStarted, ovf |-> FALSE]

\* let edges: Vec<(&I, &I)>: every arc (i, to), vertices ascending, targets ascending
RECURSIVE all_edges_from(_, _)
all_edges_from(g, keys) ==
    IF keys = <<>> THEN <<>>
    ELSE LET i == Head(keys)
             l == SetIter(get_edge_list(g, i).val)
         IN [k \in 1..Len(l) |-> <<i, l[k].to>>] \o all_edges_from(g, Tail(keys))

all_edges(g) == all_edges_from(g, KeysIter(DOMAIN g.vertices))

\* get_edge_list(i).unwrap() of that flat_map succeeds for every vertex
all_edges_unwrap_ok(g) == \A i \in DOMAIN g.vertices : get_edge_list(g, i).ret = "Ok"

\* for &(i, to) in &edges { let _ = g.add_edge(to, Edge::new(i, Some(zero))); }
RECURSIVE add_reverse_edges(_, _, _)
add_reverse_edges(g, edges, zero) ==
    IF edges = <<>> THEN g
    ELSE LET i == Head(edges)[1]
             to == Head(edges)[2]
         IN add_reverse_edges(add_edge(g, to, Edge_new(i, Some(zero))).g, Tail(edges), zero)

\* for v in g.get_vertices().values() { gf.add_vertex(v.clone()).unwrap(); }
RECURSIVE add_vertices_unwrap(_, _, _)
add_vertices_unwrap(gf, vertices, keys) ==
    IF keys = <<>> THEN Ok(gf)
    ELSE LET r == add_vertex(gf, vertices[Head(keys)]) IN
         IF r.ret # "Ok" THEN r ELSE add_vertices_unwrap(r.g, vertices, Tail(keys))

\* for &(i, to) in &edges { gf.add_edge(i, Edge::new(to, Some(zero))).unwrap(); }
RECURSIVE add_forward_edges_unwrap(_, _, _)
add_forward_edges_unwrap(gf, edges, zero) ==
    IF edges = <<>> THEN Ok(gf)
    ELSE LET r == add_edge(gf, Head(edges)[1], Edge_new(Head(edges)[2], Some(zero))) IN
         IF r.ret # "Ok" THEN r ELSE add_forward_edges_unwrap(r.g, Tail(edges), zero)

\* a faulty construction of gc that puts a zero reverse arc in place of an
\* arc of the graph
RECURSIVE build_gc_overwrites(_, _, _)
build_gc_overwrites(g, edges, zero) ==
    IF edges = <<>> THEN g
    ELSE LET i == Head(edges)[1]
             to == Head(edges)[2]
             cleared == remove_edge(g, to, i).g
         IN build_gc_overwrites(add_edge(cleared, to, Edge_new(i, Some(zero))).g,
                                Tail(edges), zero)

build_gc(g, edges, zero) == add_reverse_edges(g, edges, zero)

build_gf(g, edges, zero) ==
    LET gf0 == Graph_new(TRUE, TRUE, g.is_float_weights)
        gf1 == add_vertices_unwrap(gf0, g.vertices, KeysIter(DOMAIN g.vertices))
        gf2 == add_forward_edges_unwrap(gf1.g, edges, zero)
    IN IF gf1.ret # "Ok" THEN gf1
       ELSE IF gf2.ret # "Ok" THEN gf2
       ELSE Ok(add_reverse_edges(gf2.g, edges, zero))

AlgorithmData(s, t, gc, gf, curr_path, last_flow, total_flow) ==
    [s |-> s, t |-> t, gc |-> gc, gf |-> gf, curr_path |-> curr_path,
     last_flow |-> last_flow, total_flow |-> total_flow]

\* a faulty NotStarted arm that looks at the texts before it looks at the graph's flags
not_started_arm_texts_first(g_opt, s_str, t_str) ==
    IF ~IsSome(g_opt) THEN RetErr("GraphNotExist")
    ELSE IF ~parse(s_str).ok THEN RetErr("IncorrectArgument1")
    ELSE IF ~parse(t_str).ok THEN RetErr("IncorrectArgument2")
    ELSE IF ~Unwrap(g_opt).is_directed THEN RetErr("GraphNotDirected")
    ELSE IF ~Unwrap(g_opt).is_weighted THEN RetErr("GraphNotWeighted")
    ELSE LET g == Unwrap(g_opt)
             edges == all_edges(g)
         IN RetOk(Step(AlgorithmData(parse(s_str).val, parse(t_str).val, build_gc(g, edges, 0),
                                     build_gf(g, edges, 0).g, None, 0, 0)),
                  FALSE)

not_started_arm(g_opt, s_str, t_str) ==
    IF ~IsSome(g_opt) THEN RetErr("GraphNotExist")
    ELSE LET g == Unwrap(g_opt)
             zero == 0
             s == parse(s_str)
             t == parse(t_str)
         IN IF ~g.is_directed THEN RetErr("GraphNotDirected")
            ELSE IF ~g.is_weighted THEN RetErr("GraphNotWeighted")
            ELSE IF ~s.ok THEN RetErr("IncorrectArgument1")
            ELSE IF ~t.ok THEN RetErr("IncorrectArgument2")
            ELSE IF ~all_edges_unwrap_ok(g) THEN RetPanic
            ELSE LET edges == all_edges(g)
                     gc == build_gc(g, edges, zero)
                     gf == build_gf(g, edges, zero)
                 IN IF gf.ret # "Ok" THEN RetPanic
                    ELSE RetOk(Step(AlgorithmData(s.val, t.val, gc, gf.g, None, zero, zero)),
                               FALSE)

----------------------------------------------------------------------------
(* dfs (src/src/graph_flows.rs:180-238).  The mutable arguments gf, used and
   curr_path travel in a record m = [gf, used, curr_path, ovf, panic]; dfs
   returns [f, m].  curr_path is a BTreeMap keyed by <<i, to>>. *)

DfsRet(f, m) == [f |-> f, m |-> m]

\* set_flow: gf.remove_edge(from, to).unwrap(); gf.add_edge(from, Edge::new(to, Some(w))).unwrap()
set_flow_add(removed, from, to, w) ==
    IF removed.ret # "Ok" THEN removed ELSE add_edge(removed.g, from, Edge_new(to, Some(w)))

set_flow(gf, from, to, w) == set_flow_add(remove_edge(gf, from, to), from, to, w)

\* a faulty reverse-arc update that leaves the reverse arc's flow as it was
dfs_keep_reverse(m, fwd, rev, i, to, f, next_f, zero) ==
    IF fwd.ret # "Ok" THEN [m EXCEPT !.panic = TRUE]
    ELSE [m EXCEPT !.gf = fwd.g,
                   !.curr_path = MapInsert(MapInsert(m.curr_path, <<i, to>>, next_f),
                                           <<to, i>>, WrappingSub(zero, next_f)),
                   !.ovf = m.ovf \/ AddOverflows(f, next_f)]

\* a faulty reverse-arc update that adds the path's flow to the reverse arc
\* instead of taking it away
dfs_apply_reverse_adds(m, fwd, rev, i, to, f, next_f, zero) ==
    IF fwd.ret # "Ok" \/ rev.ret # "Ok" \/ ~IsSome(rev.val.weight)
    THEN [m EXCEPT !.panic = TRUE]
    ELSE LET rev_f == Unwrap(rev.val.weight)
             back == set_flow(fwd.g, to, i, WrappingAdd(rev_f, next_f))
         IN [m EXCEPT !.gf = IF back.ret = "Ok" THEN back.g ELSE m.gf,
                      !.curr_path = MapInsert(MapInsert(m.curr_path, <<i, to>>, next_f),
                                              <<to, i>>, WrappingSub(zero, next_f)),
                      !.ovf = \/ m.ovf
                              \/ AddOverflows(f, next_f)
                              \/ SubOverflows(zero, next_f)
                              \/ AddOverflows(rev_f, next_f),
                      !.panic = m.panic \/ back.ret # "Ok"]

\* lines 225-233, with fwd the flow graph after the forward arc's update and rev = gf.get_edge(to, i)
dfs_apply_reverse(m, fwd, rev, i, to, f, next_f, zero) ==
    IF fwd.ret # "Ok" \/ rev.ret # "Ok" \/ ~IsSome(rev.val.weight)
    THEN [m EXCEPT !.panic = TRUE]
    ELSE LET rev_f == Unwrap(rev.val.weight)
             back == set_flow(fwd.g, to, i, WrappingSub(rev_f, next_f))
         IN [m EXCEPT !.gf = IF back.ret = "Ok" THEN back.g ELSE m.gf,
                      !.curr_path = MapInsert(MapInsert(m.curr_path, <<i, to>>, next_f),
                                              <<to, i>>, WrappingSub(zero, next_f)),
                      !.ovf = \/ m.ovf
                              \/ AddOverflows(f, next_f)
                              \/ SubOverflows(zero, next_f)
                              \/ SubOverflows(rev_f, next_f),
                      !.panic = m.panic \/ back.ret # "Ok"]

dfs_apply_forward(m, fwd, i, to, f, next_f, zero) ==
    dfs_apply_reverse(m, fwd, get_edge(fwd.g, to, i), i, to, f, next_f, zero)

\* a faulty update that stores the path's flow on the forward arc instead of
\* adding it to the arc's flow
dfs_apply_sets_path_flow(m, i, to, f, next_f, zero) ==
    dfs_apply_forward(m, set_flow(m.gf, i, to, next_f), i, to, f, next_f, zero)

\* lines 219-233: the flow added on the forward arc and taken from the reverse arc
dfs_apply(m, i, to, f, next_f, zero) ==
    dfs_apply_forward(m, set_flow(m.gf, i, to, WrappingAdd(f, next_f)), i, to, f, next_f, zero)

RECURSIVE dfs(_, _, _, _, _, _), dfs_edges(_, _, _, _, _, _, _)

\* a faulty loop body that gives up after the first arc that yields no flow
dfs_returned_first_arc_only(gc, s, t, i, flow, todo, f, sub) ==
    IF sub.m.panic THEN sub
    ELSE IF sub.f # 0
         THEN DfsRet(sub.f, dfs_apply(sub.m, i, Head(todo).to, f, sub.f, 0))
         ELSE DfsRet(0, sub.m)

\* a faulty loop body that hands back the flow it was offered instead of the
\* flow it has applied
dfs_returned_hands_back_offer(gc, s, t, i, flow, todo, f, sub) ==
    IF sub.m.panic THEN sub
    ELSE IF sub.f # 0
         THEN DfsRet(flow, dfs_apply(sub.m, i, Head(todo).to, f, sub.f, 0))
         ELSE dfs_edges(gc, sub.m, s, t, i, flow, Tail(todo))

\* lines 218-235, with next_f = sub.f the flow the recursive call returned
dfs_returned(gc, s, t, i, flow, todo, f, sub) ==
    LET zero == 0 IN
    IF sub.m.panic THEN sub
    ELSE IF sub.f # zero
         THEN DfsRet(sub.f, dfs_apply(sub.m, i, Head(todo).to, f, sub.f, zero))
         ELSE dfs_edges(gc, sub.m, s, t, i, flow, Tail(todo))

\* a faulty loop body that passes the incoming flow on whatever the arc's
\* residual capacity
dfs_edge_ignores_residual(gc, m, s, t, i, flow, todo, fe) ==
    IF ~IsSome(Head(todo).weight) \/ fe.ret # "Ok" \/ ~IsSome(fe.val.weight)
    THEN DfsRet(0, [m EXCEPT !.panic = TRUE])
    ELSE dfs_returned(gc, s, t, i, flow, todo, Unwrap(fe.val.weight),
                      dfs(gc, m, s, t, Head(todo).to, flow))

\* a faulty loop body that takes the arc's capacity for its residual capacity
dfs_edge_residual_is_capacity(gc, m, s, t, i, flow, todo, fe) ==
    IF ~IsSome(Head(todo).weight) \/ fe.ret # "Ok" \/ ~IsSome(fe.val.weight)
    THEN DfsRet(0, [m EXCEPT !.panic = TRUE])
    ELSE dfs_returned(gc, s, t, i, flow, todo, Unwrap(fe.val.weight),
                      dfs(gc, m, s, t, Head(todo).to, min(flow, Unwrap(Head(todo).weight))))

\* lines 212-217, with fe = gf.get_edge(i, to)
dfs_edge(gc, m, s, t, i, flow, todo, fe) ==
    LET zero == 0
        to == Head(todo).to
        c_opt == Head(todo).weight
    IN IF ~IsSome(c_opt) \/ fe.ret # "Ok" \/ ~IsSome(fe.val.weight)
       THEN DfsRet(zero, [m EXCEPT !.panic = TRUE])
       ELSE LET c == Unwrap(c_opt)
                f == Unwrap(fe.val.weight)
                r == WrappingSub(c, f)
            IN dfs_returned(gc, s, t, i, flow, todo, f,
                            dfs(gc, [m EXCEPT !.ovf = m.ovf \/ SubOverflows(c, f)],
                                s, t, to, min(flow, r)))

\* a faulty loop that hands the incoming flow back when no arc is left to try
dfs_edges_dead_end_flows(gc, m, s, t, i, flow, todo) ==
    IF todo = <<>> THEN DfsRet(flow, m)
    ELSE dfs_edge(gc, m, s, t, i, flow, todo, get_edge(m.gf, i, Head(todo).to))

\* lines 210-237: the loop over the arcs leaving i, the first arc first
dfs_edges(gc, m, s, t, i, flow, todo) ==
    IF todo = <<>> THEN DfsRet(0, m)
    ELSE dfs_edge(gc, m, s, t, i, flow, todo, get_edge(m.gf, i, Head(todo).to))

\* lines 207-210, with l = gc.get_edge_list(i)
dfs_visit(gc, m, s, t, i, flow, l) ==
    IF l.ret # "Ok" THEN DfsRet(0, [m EXCEPT !.used = m.used \cup {i}, !.panic = TRUE])
    ELSE dfs_edges(gc, [m EXCEPT !.used = m.used \cup {i}], s, t, i, flow, SetIter(l.val))

dfs(gc, m, s, t, i, flow) ==
    LET zero == 0 IN
    IF i = t THEN DfsRet(flow, m)
    ELSE IF flow = zero \/ i \in m.used THEN DfsRet(zero, m)
    ELSE dfs_visit(gc, m, s, t, i, flow, get_edge_list(gc, i))

\* a faulty step that reports the last path's flow as the total
step_arm_forgets_total(data, d, zero) ==
    IF d.m.panic THEN RetPanic
    ELSE LET data1 == [data EXCEPT !.gf = d.m.gf,
                                   !.curr_path = IF d.f = zero THEN None ELSE Some(d.m.curr_path),
                                   !.total_flow = d.f,
                                   !.last_flow = d.f]
         IN RetOk(IF d.f = zero THEN Finished(data1) ELSE Step(data1), d.m.ovf)

\* a faulty step that leaves the empty path map in place when no path is found
step_arm_keeps_path(data, d, zero) ==
    IF d.m.panic THEN RetPanic
    ELSE LET data1 == [data EXCEPT !.gf = d.m.gf,
                                   !.curr_path = Some(d.m.curr_path),
                                   !.total_flow = WrappingAdd(data.total_flow, d.f),
                                   !.last_flow = d.f]
         IN RetOk(IF d.f = zero THEN Finished(data1) ELSE Step(data1),
                  d.m.ovf \/ AddOverflows(data.total_flow, d.f))

\* lines 160-170, with d what dfs returned
step_arm_returned(data, d, zero) ==
    IF d.m.panic THEN RetPanic
    ELSE LET data1 == [data EXCEPT !.gf = d.m.gf,
                                   !.curr_path = IF d.f = zero THEN None ELSE Some(d.m.curr_path),
                                   !.total_flow = WrappingAdd(data.total_flow, d.f),
                                   !.last_flow = d.f]
         IN RetOk(IF d.f = zero THEN Finished(data1) ELSE Step(data1),
                  d.m.ovf \/ AddOverflows(data.total_flow, d.f))

\* a faulty Step arm that resets the machine when no path is left
step_arm_resets(data) ==
    LET d == dfs(data.gc,
                 [gf |-> data.gf, used |-> {}, curr_path |-> EmptyMap,
                  ovf |-> FALSE, panic |-> FALSE],
                 data.s, data.t, data.s, I32Max)
    IN IF d.f = 0 /\ ~d.m.panic THEN RetOk(NotStarted, FALSE)
       ELSE step_arm_returned(data, d, 0)

\* AlgorithmState::Step(mut data) => ... (lines 140-171)
step_arm(data) ==
    LET zero == 0
        inf == I32Max
    IN step_arm_returned(data,
                         dfs(data.gc,
                             [gf |-> data.gf, used |-> {}, curr_path |-> EmptyMap,
                              ovf |-> FALSE, panic |-> FALSE],
                             data.s, data.t, data.s, inf),
                         zero)

\* a faulty Finished arm that starts the next run on the finished run's graphs
finished_arm_restarts(data) ==
    RetOk(Step([data EXCEPT !.total_flow = 0, !.last_flow = 0]), FALSE)

\* AlgorithmState::Finished(_) => Ok(AlgorithmState::NotStarted)
finished_arm(data) == RetOk(NotStarted, FALSE)

\* a faulty algorithm_step whose Step arm reads the source and the sink from
\* the texts of the call
algorithm_step_reparses(st, g, s_str, t_str) ==
    CASE st.tag = "NotStarted" -> not_started_arm(g, s_str, t_str)
      [] st.tag = "Step" ->
            IF parse(s_str).ok /\ parse(t_str).ok
            THEN step_arm([st.data EXCEPT !.s = parse(s_str).val, !.t = parse(t_str).val])
            ELSE RetErr("IncorrectArgument1")
      [] st.tag = "Finished" -> finished_arm(st.data)

algorithm_step(st, g, s_str, t_str) ==
    CASE st.tag = "NotStarted" -> not_started_arm(g, s_str, t_str)
      [] st.tag = "Step" -> step_arm(st.data)
      [] st.tag = "Finished" -> finished_arm(st.data)

----------------------------------------------------------------------------
(* The caller.  call = [op, args, ret] is the last call and its outcome; a
   panic ends the process, so nothing happens after call.ret = "Panic". *)

Call(op, args, ret) == [op |-> op, args |-> args, ret |-> ret]
\* History of the current run: the sum of the last_flow values returned so far is
\* sum_carry * 2^32 + sum_low; steps counts the Step -> Step transitions and wraps
\* the calls in which an addition wrapped.  prev is the capacity graph of the run
\* that was reset last (kept while NotStarted); reread says, in the first Step
\* state of a run, that this run's capacity graph differs from prev.
NoRun == [sum_carry |-> 0, sum_low |-> 0, steps |-> 0, wraps |-> 0,
          prev |-> None, reread |-> FALSE]
Running == call.ret # "Panic"

\* stored Edge records of a graph
EdgeCount(g) ==
    Cardinality({<<i, e>> \in (DOMAIN g.edges) \X (UNION {g.edges[k] : k \in DOMAIN g.edges}) :
                    e \in g.edges[i]})

\* label strings offered to add_vertex
Labels == {None}

\* AppMsg::NewGraph: parse_command "n" replaces the graph by an empty one
NewGraph(is_directed, is_weighted) ==
    /\ Running
    /\ graph' = Some(Graph_new(is_directed, is_weighted, FALSE))
    /\ call' = Call("new", <<is_directed, is_weighted>>, "Ok")
    /\ UNCHANGED <<state, source_text, sink_text, build, run>>

AddVertex(id, label) ==
    /\ Running /\ IsSome(graph)
    /\ LET r == add_vertex(Unwrap(graph), Vertex_new(id, label)) IN
       /\ graph' = Some(r.g)
       /\ call' = Call("add_vertex", <<id, label>>, r.ret)
    /\ UNCHANGED <<state, source_text, sink_text, build, run>>

RemoveVertex(id) ==
    /\ Running /\ IsSome(graph)
    /\ LET r == remove_vertex(Unwrap(graph), id) IN
       /\ graph' = Some(r.g)
       /\ call' = Call("remove_vertex", <<id>>, r.ret)
    /\ UNCHANGED <<state, source_text, sink_text, build, run>>

AddEdge(from, to, weight) ==
    /\ Running /\ IsSome(graph)
    /\ LET r == add_edge(Unwrap(graph), from, Edge_new(to, weight)) IN
       /\ EdgeCount(r.g) <= MaxEdges
       /\ graph' = Some(r.g)
       /\ call' = Call("add_edge", <<from, to, weight>>, r.ret)
    /\ UNCHANGED <<state, source_text, sink_text, build, run>>

RemoveEdge(from, to) ==
    /\ Running /\ IsSome(graph)
    /\ LET r == remove_edge(Unwrap(graph), from, to) IN
       /\ graph' = Some(r.g)
       /\ call' = Call("remove_edge", <<from, to>>, r.ret)
    /\ UNCHANGED <<state, source_text, sink_text, build, run>>

\* AppModel::new: no graph, NotStarted, empty texts
InitApp ==
    /\ graph = None
    /\ state = NotStarted
    /\ source_text = <<>>
    /\ sink_text = <<>>
    /\ call = Call("init", <<>>, "Ok")
    /\ build = "any"
    /\ run = NoRun

Weights == {None} \cup {Some(w) : w \in 1..MaxWeight}

NextGraph ==
    \/ \E d \in BOOLEAN, w \in BOOLEAN : NewGraph(d, w)
    \/ \E i \in 1..MaxVertex, l \in Labels : AddVertex(i, l)
    \/ \E i \in 1..MaxVertex : RemoveVertex(i)
    \/ \E i \in 1..MaxVertex, j \in 1..MaxVertex, w \in Weights : AddEdge(i, j, w)
    \/ \E i \in 1..MaxVertex, j \in 1..MaxVertex : RemoveEdge(i, j)

\* the Graph ADT under every sequence of mutation calls
SpecGraph == InitApp /\ [][NextGraph]_vars

----------------------------------------------------------------------------
(* <i32 as Display>::fmt: the decimal digits, with a leading "-" below zero *)

DigitChar(d) ==
    CASE d = 0 -> "0" [] d = 1 -> "1" [] d = 2 -> "2" [] d = 3 -> "3" [] d = 4 -> "4"
      [] d = 5 -> "5" [] d = 6 -> "6" [] d = 7 -> "7" [] d = 8 -> "8" [] d = 9 -> "9"

\* digits of |n| for n <= 0 (the magnitude of i32::MIN does not fit an i32)
RECURSIVE fmt_magnitude(_)
fmt_magnitude(n) ==
    LET d == (10 - (n % 10)) % 10
        rest == (n + d) \div 10
    IN IF rest = 0 THEN <<DigitChar(d)>> ELSE fmt_magnitude(rest) \o <<DigitChar(d)>>

to_string(n) == IF n < 0 THEN <<"-">> \o fmt_magnitude(n) ELSE fmt_magnitude(-n)

----------------------------------------------------------------------------
(* The step machine's caller (AppMsg::AlgorithmStep, src/src/graph_app.rs:241-259):
   the state is moved out, algorithm_step is called with the caller's texts, and
   the new state is stored; on Err the state stays NotStarted.  An overflow panics
   in a debug build and wraps in a release build; build records which of the two
   this run has turned out to be. *)

RunAfter(st, ret) ==
    IF ret.state.tag = "NotStarted" THEN [NoRun EXCEPT !.prev = Some(st.data.gc)]
    ELSE IF st.tag = "NotStarted"
         THEN [NoRun EXCEPT !.reread = IsSome(run.prev) /\ Unwrap(run.prev) # ret.state.data.gc]
    ELSE LET f == ret.state.data.last_flow IN
         [sum_carry |-> run.sum_carry
                          + (IF f > 0 /\ run.sum_low > I32Max - f THEN 1
                             ELSE IF f < 0 /\ run.sum_low < I32Min - f THEN -1 ELSE 0),
          sum_low |-> WrappingAdd(run.sum_low, f),
          steps |-> run.steps + (IF ret.state.tag = "Step" THEN 1 ELSE 0),
          wraps |-> run.wraps + (IF ret.ovf THEN 1 ELSE 0),
          prev |-> None,
          reread |-> FALSE]

AlgorithmStep(g) ==
    /\ Running
    /\ \E ret \in {algorithm_step(state, g, source_text, sink_text)} :
       \/ /\ ret.kind = "Err"
          /\ state' = NotStarted
          /\ call' = Call("algorithm_step", <<IsSome(g)>>, ret.err)
          /\ UNCHANGED <<build, run>>
       \/ /\ ret.kind = "Panic" \/ (ret.kind = "Ok" /\ ret.ovf /\ build # "release")
          /\ state' = NotStarted
          /\ call' = Call("algorithm_step", <<IsSome(g)>>, "Panic")
          /\ build' = IF ret.kind = "Panic" THEN build ELSE "debug"
          /\ run' = NoRun
       \/ /\ ret.kind = "Ok"
          /\ ret.ovf => build # "debug" /\ run.wraps < MaxWraps
          /\ state' = ret.state
          /\ call' = Call("algorithm_step", <<IsSome(g)>>, "Ok")
          /\ build' = IF ret.ovf THEN "release" ELSE build
          /\ run' = RunAfter(state, ret)
    /\ UNCHANGED <<graph, source_text, sink_text>>

----------------------------------------------------------------------------
(* Initial graphs, each built through the mutation API: the graph with the
   given flags on the vertices `ids` after add_edge(a[1], a[2], weight[a]) for
   every a of `arcs`, in ascending order. *)

RECURSIVE with_vertices(_, _)
with_vertices(g, keys) ==
    IF keys = <<>> THEN g
    ELSE with_vertices(add_vertex(g, Vertex_new(Head(keys), None)).g, Tail(keys))

ArcBefore(a, b) == a[1] < b[1] \/ (a[1] = b[1] /\ a[2] <= b[2])

RECURSIVE with_arcs(_, _, _)
with_arcs(g, arcs, weight) ==
    IF arcs = {} THEN g
    ELSE LET a == CHOOSE a \in arcs : \A b \in arcs : ArcBefore(a, b) IN
         with_arcs(add_edge(g, a[1], Edge_new(a[2], weight[a])).g, arcs \ {a}, weight)

graph_of(is_directed, is_weighted, ids, arcs, weight) ==
    with_arcs(with_vertices(Graph_new(is_directed, is_weighted, FALSE), KeysIter(ids)),
              arcs, weight)

\* directed weighted graphs on 1..FlowVertices with at most FlowMaxArcs arcs
FlowIds == 1..FlowVertices
FlowCaps == (0..MaxCap) \cup {I32Max}
FlowArcSets == {A \in SUBSET (FlowIds \X FlowIds) : Cardinality(A) <= FlowMaxArcs}
FlowGraphs ==
    UNION {{graph_of(TRUE, TRUE, FlowIds, A, [a \in A |-> Some(cap[a])]) : cap \in [A -> FlowCaps]} :
             A \in FlowArcSets}
FlowTexts == {to_string(i) : i \in FlowIds}

\* the scenario of spec.md section 8: vertices s, a, b, t = p[1..4] and the arcs
\* s->a, s->b, a->b, a->t, b->t with capacities c[1..5]
ScenarioArcs(p) == <<<<p[1], p[2]>>, <<p[1], p[3]>>, <<p[2], p[3]>>, <<p[2], p[4]>>, <<p[3], p[4]>>>>
ScenarioGraph(p, c) ==
    LET arcs == ScenarioArcs(p) IN
    graph_of(TRUE, TRUE, {p[k] : k \in 1..4}, {arcs[k] : k \in 1..5},
             [a \in {arcs[k] : k \in 1..5} |-> Some(c[CHOOSE k \in 1..5 : arcs[k] = a])])
ScenarioIds == Permutations({1, 2, 3, 4})
ScenarioCaps == [1..5 -> 1..ScenarioMaxCap]

InitRun ==
    /\ state = NotStarted
    /\ call = Call("init", <<>>, "Ok")
    /\ build = "any"
    /\ run = NoRun

InitScenario ==
    /\ \E p \in ScenarioIds, c \in ScenarioCaps :
          /\ graph = Some(ScenarioGraph(p, c))
          /\ source_text = to_string(p[1])
          /\ sink_text = to_string(p[4])
    /\ InitRun

InitFlow ==
    \/ /\ graph \in {Some(g) : g \in FlowGraphs}
       /\ source_text \in FlowTexts
       /\ sink_text \in FlowTexts
       /\ InitRun
    \/ InitScenario

NextFlow == AlgorithmStep(graph)

\* runs of the step machine on a fixed graph, in either build
SpecFlow == InitFlow /\ [][NextFlow]_vars

\* runs of the step machine on the scenario's graph shape, from s to t
SpecScenario == InitScenario /\ [][NextFlow]_vars

\* graphs with a two-way arc between the inner vertices and a self-loop:
\* vertices s, a, b, t = p[1..4], the arcs s->a, s->b, a->b, b->a, a->t, b->t
\* with weights c[1..6], each negative, small or i32::MAX, and the arc a->a of
\* weight 1
WideArcs(p) ==
    <<<<p[1], p[2]>>, <<p[1], p[3]>>, <<p[2], p[3]>>, <<p[3], p[2]>>, <<p[2], p[4]>>,
      <<p[3], p[4]>>, <<p[2], p[2]>>>>
WideGraph(p, c) ==
    LET arcs == WideArcs(p) IN
    graph_of(TRUE, TRUE, {p[k] : k \in 1..4}, {arcs[k] : k \in 1..7},
             [a \in {arcs[k] : k \in 1..7} |->
                Some(IF a = arcs[7] THEN 1 ELSE c[CHOOSE k \in 1..6 : arcs[k] = a])])
WideWeights == {-1, 1, I32Max}
WideCaps == [1..6 -> WideWeights]

InitWide ==
    /\ \E p \in ScenarioIds, c \in WideCaps :
          /\ graph = Some(WideGraph(p, c))
          /\ source_text = to_string(p[1])
          /\ sink_text = to_string(p[4])
    /\ InitRun

\* runs of the step machine from s to t on these graphs, in either build
SpecWide == InitWide /\ [][NextFlow]_vars

----------------------------------------------------------------------------
(* The whole caller: loading a graph, text edits and steps in any order. *)

\* AppMsg::ChangeSourceText / AppMsg::ChangeSinkText
ChangeSourceText(x) ==
    /\ Running
    /\ source_text' = x
    /\ call' = Call("change_source_text", <<>>, "Ok")
    /\ UNCHANGED <<graph, state, sink_text, build, run>>

ChangeSinkText(x) ==
    /\ Running
    /\ sink_text' = x
    /\ call' = Call("change_sink_text", <<>>, "Ok")
    /\ UNCHANGED <<graph, state, source_text, build, run>>

\* AppMsg::OpenFile with a file that loads to g: the graph is replaced wholesale
OpenFile(g) ==
    /\ Running
    /\ graph' = Some(g)
    /\ call' = Call("load", <<>>, "Ok")
    /\ UNCHANGED <<state, source_text, sink_text, build, run>>

\* texts typed into the source and sink fields: empty, and the vertex ids
AppTexts == {<<>>} \cup {to_string(i) : i \in 1..MaxVertex}

\* graphs loaded: any flags, the vertices 1..MaxVertex, at most AppMaxArcs edges
AppIds == 1..MaxVertex
AppArcSets == {A \in SUBSET (AppIds \X AppIds) : Cardinality(A) <= AppMaxArcs}
AppGraphs ==
    {graph_of(d, w, AppIds, A, [a \in A |-> IF w THEN Some(1) ELSE None]) :
       d \in BOOLEAN, w \in BOOLEAN, A \in AppArcSets}

NextApp ==
    \/ \E d \in BOOLEAN, w \in BOOLEAN : NewGraph(d, w)
    \/ \E g \in AppGraphs : OpenFile(g)
    \/ \E x \in AppTexts : ChangeSourceText(x)
    \/ \E x \in AppTexts : ChangeSinkText(x)
    \/ \E g \in {graph, None} : AlgorithmStep(g)

Spec == InitApp /\ [][NextApp]_vars

----------------------------------------------------------------------------
(* Text files (Graph::to_file and Graph::from_file, src/src/graph.rs).  A text
   is a sequence of lines, a line a String (a sequence of characters) without
   its newline. *)

directed_str == <<"d", "i", "r", "e", "c", "t", "e", "d">>
undirected_str == <<"u", "n">> \o directed_str
weighted_str == <<"w", "e", "i", "g", "h", "t", "e", "d">>
unweighted_str == <<"u", "n">> \o weighted_str
float_str == <<"f", "l", "o", "a", "t">>
int_str == <<"i", "n", "t">>
vertices_str == <<"v", "e", "r", "t", "i", "c", "e", "s">>
edges_str == <<"e", "d", "g", "e", "s">>

\* "{} {}" and "{} {} {}"
Format2(a, b) == a \o <<" ">> \o b
Format3(a, b, c) == a \o <<" ">> \o b \o <<" ">> \o c

\* the header line of to_file
header_line(g) ==
    Format3(IF g.is_directed THEN directed_str ELSE undirected_str,
            IF g.is_weighted THEN weighted_str ELSE unweighted_str,
            IF g.is_float_weights THEN float_str ELSE int_str)

\* one line per vertex, in the order of vertices.values()
RECURSIVE vertex_lines(_, _)
vertex_lines(g, keys) ==
    IF keys = <<>> THEN <<>>
    ELSE LET v == g.vertices[Head(keys)] IN
         <<IF IsSome(v.label) THEN Format2(to_string(v.id), Unwrap(v.label))
           ELSE to_string(v.id)>> \o vertex_lines(g, Tail(keys))

\* the lines of one adjacency set; an undirected graph skips from > e.to
RECURSIVE edge_set_lines(_, _, _)
edge_set_lines(g, from, es) ==
    IF es = <<>> THEN <<>>
    ELSE LET e == Head(es) IN
         (IF ~g.is_directed /\ from > e.to THEN <<>>
          ELSE <<IF IsSome(e.weight)
                 THEN Format3(to_string(from), to_string(e.to), to_string(Unwrap(e.weight)))
                 ELSE Format2(to_string(from), to_string(e.to))>>)
         \o edge_set_lines(g, from, Tail(es))

RECURSIVE edge_lines(_, _)
edge_lines(g, keys) ==
    IF keys = <<>> THEN <<>>
    ELSE edge_set_lines(g, Head(keys), SetIter(g.edges[Head(keys)]))
         \o edge_lines(g, Tail(keys))

to_file(g) ==
    <<header_line(g), vertices_str>> \o vertex_lines(g, KeysIter(DOMAIN g.vertices))
      \o <<edges_str>> \o edge_lines(g, KeysIter(DOMAIN g.edges))

\* u8::is_ascii_whitespace, on the characters used here
Whitespace == {" ", "\t"}

\* str::split_ascii_whitespace: the maximal runs of non-whitespace characters
RECURSIVE split_from(_, _, _)
split_from(line, token, tokens) ==
    IF line = <<>> THEN IF token = <<>> THEN tokens ELSE Append(tokens, token)
    ELSE IF Head(line) \in Whitespace
         THEN split_from(Tail(line), <<>>, IF token = <<>> THEN tokens ELSE Append(tokens, token))
         ELSE split_from(Tail(line), Append(token, Head(line)), tokens)

split_ascii_whitespace(line) == split_from(line, <<>>, <<>>)

\* graph_parser::new_graph: the three header tokens select the flags
parser_new_graph(line_split, g) ==
    IF Len(line_split) # 3 THEN Err(g, "IncorrectArgumentCount")
    ELSE IF line_split[1] \notin {directed_str, undirected_str} THEN Err(g, "IncorrectArgument0")
    ELSE IF line_split[2] \notin {weighted_str, unweighted_str} THEN Err(g, "IncorrectArgument1")
    ELSE IF line_split[3] \notin {float_str, int_str} THEN Err(g, "IncorrectArgument2")
    ELSE Ok(Some(Graph_new(line_split[1] = directed_str, line_split[2] = weighted_str,
                           line_split[3] = float_str)))

\* graph_parser::add_vertex: <id> [label], then Graph::add_vertex
parser_add_vertex(line_split, g) ==
    IF Len(line_split) = 0 \/ Len(line_split) > 2 THEN Err(g, "IncorrectArgumentCount")
    ELSE LET i == parse(line_split[1])
             label == IF Len(line_split) = 2 THEN Some(line_split[2]) ELSE None
         IN IF ~i.ok THEN Err(g, "IncorrectArgument0")
            ELSE IF ~IsSome(g) THEN Err(g, "GraphNotExist")
            ELSE LET r == add_vertex(Unwrap(g), Vertex_new(i.val, label)) IN
                 [g |-> Some(r.g), ret |-> r.ret]

\* graph_parser::add_edge: <from> <to> [weight], then Graph::add_edge
parser_add_edge(line_split, g) ==
    IF Len(line_split) < 2 \/ Len(line_split) > 3 THEN Err(g, "IncorrectArgumentCount")
    ELSE LET i == parse(line_split[1])
             j == parse(line_split[2])
             w == IF Len(line_split) = 3 THEN parse(line_split[3]) ELSE ParseFail
             weight == IF Len(line_split) = 3 THEN Some(w.val) ELSE None
         IN IF ~i.ok THEN Err(g, "IncorrectArgument0")
            ELSE IF ~j.ok THEN Err(g, "IncorrectArgument1")
            ELSE IF Len(line_split) = 3 /\ ~w.ok THEN Err(g, "IncorrectArgument2")
            ELSE IF ~IsSome(g) THEN Err(g, "GraphNotExist")
            ELSE LET r == add_edge(Unwrap(g), i.val, Edge_new(j.val, weight)) IN
                 [g |-> Some(r.g), ret |-> r.ret]

\* one iteration of the loop of from_file: [state, g, ret]
Reading(st, r) == [state |-> st, g |-> r.g, ret |-> r.ret]

from_file_line(state_, g, line_str) ==
    LET line_split == split_ascii_whitespace(line_str) IN
    CASE state_ = "NotCreated" ->
           Reading("ParsingVerticesStart", parser_new_graph(line_split, g))
      [] state_ = "ParsingVerticesStart" ->
           IF line_str = vertices_str THEN Reading("ParsingVertices", Ok(g))
           ELSE Reading("ParsingVerticesStart", Err(g, "WrongParsingVerticesStart"))
      [] state_ = "ParsingVertices" ->
           IF line_str = edges_str THEN Reading("ParsingEdges", Ok(g))
           ELSE Reading("ParsingVertices", parser_add_vertex(line_split, g))
      [] state_ = "ParsingEdges" -> Reading("ParsingEdges", parser_add_edge(line_split, g))

\* for line in reader.lines(): the first error is returned
RECURSIVE from_file_lines(_, _, _)
from_file_lines(lines, state_, g) ==
    IF lines = <<>>
    THEN IF IsSome(g) THEN Ok(g) ELSE Err(g, "EmptyFile")
    ELSE LET r == from_file_line(state_, g, Head(lines)) IN
         IF r.ret # "Ok" THEN Err(None, r.ret)
         ELSE from_file_lines(Tail(lines), r.state, r.g)

\* Result<Graph, GraphError> as [g, ret], g an Option that is Some exactly on "Ok"
from_file(text) == from_file_lines(text, "NotCreated", None)

\* label strings offered to add_vertex before saving: none, a word, an empty
\* string and two words
FileLabels == {None, Some(<<"a">>), Some(<<>>), Some(<<"a", " ", "b">>)}

\* hand-written texts: up to MaxLines lines, each a header, a marker or the
\* line "1 1" (vertex 1 labelled "1" as a vertex line, a self-loop as an edge line)
MaxLines == 4
FileLines ==
    {header_line(Graph_new(TRUE, FALSE, FALSE)), vertices_str, edges_str,
     Format2(to_string(1), to_string(1))}
FileTexts == UNION {[1..n -> FileLines] : n \in 0..MaxLines}

\* AppMsg::SaveFile: parse_command "sf" writes the graph; the text written is
\* kept as the argument of the call
SaveFile ==
    /\ Running
    /\ call' = IF IsSome(graph) THEN Call("save_file", <<to_file(Unwrap(graph))>>, "Ok")
               ELSE Call("save_file", <<>>, "GraphNotExist")
    /\ UNCHANGED <<graph, state, source_text, sink_text, build, run>>

\* AppMsg::OpenFile on a file holding text: parse_command "lf" replaces the
\* graph when from_file succeeds and leaves it alone otherwise
LoadFile(text) ==
    /\ Running
    /\ LET r == from_file(text) IN
       /\ graph' = IF r.ret = "Ok" THEN r.g ELSE graph
       /\ call' = Call("load_file", <<text>>, r.ret)
    /\ UNCHANGED <<state, source_text, sink_text, build, run>>

\* the file just saved is opened again
LoadSaved ==
    /\ call.op = "save_file" /\ call.ret = "Ok"
    /\ LoadFile(call.args[1])

NextFile ==
    \/ \E d \in BOOLEAN, w \in BOOLEAN : NewGraph(d, w)
    \/ \E i \in 1..MaxVertex, l \in FileLabels : AddVertex(i, l)
    \/ \E i \in 1..MaxVertex, j \in 1..MaxVertex, w \in Weights : AddEdge(i, j, w)
    \/ SaveFile
    \/ LoadSaved

\* graphs built by mutation calls, saved and loaded
SpecFile == InitApp /\ [][NextFile]_vars

NextLoad ==
    \/ \E text \in FileTexts : LoadFile(text)
    \/ SaveFile
    \/ LoadSaved

\* from_file on hand-written texts; what it loads is saved and loaded again
SpecLoad == InitApp /\ [][NextLoad]_vars

----------------------------------------------------------------------------
(* Properties of the Graph ADT, checked under SpecGraph *)

\* the edge stored from -> to, if any
StoredEdges(g, from, to) == {e \in g.edges[from] : e.to = to}

\* C9: invariant I1 -- in an undirected graph every stored edge u -> v with
\* weight w has a stored mirror v -> u with the same weight w, after any
\* sequence of add_vertex / remove_vertex / add_edge / remove_edge calls,
\* successful or failing.
C9_MirrorInvariant ==
    (IsSome(graph) /\ ~Unwrap(graph).is_directed) =>
        LET g == Unwrap(graph) IN
        \A u \in DOMAIN g.edges : \A e \in g.edges[u] :
            /\ e.to \in DOMAIN g.edges
            /\ \E m \in g.edges[e.to] : m.to = u /\ m.weight = e.weight

\* an undirected weighted graph that holds an edge 1 - 2 after a remove_edge
\* call failed on it
C9_Witness ==
    /\ IsSome(graph) /\ ~Unwrap(graph).is_directed
    /\ call.op = "remove_edge" /\ call.ret = "EdgeNotFound"
    /\ 1 \in DOMAIN Unwrap(graph).edges
    /\ \E e \in Unwrap(graph).edges[1] : e.to = 2 /\ IsSome(e.weight)

\* C10: in an undirected graph, for existing vertices a, b and a weight w
\* consistent with is_weighted, add_edge(a, b, w) succeeds iff neither
\* get_edge(a, b) nor get_edge(b, a) found an edge before the call, and fails
\* with EdgeExists otherwise; after a success both return weight w.
C10_AddEdgeUndirected ==
    [][(/\ call'.op = "add_edge"
        /\ IsSome(graph)
        /\ ~Unwrap(graph).is_directed
        /\ call'.args[1] \in DOMAIN Unwrap(graph).vertices
        /\ call'.args[2] \in DOMAIN Unwrap(graph).vertices
        /\ IsSome(call'.args[3]) = Unwrap(graph).is_weighted)
       => LET g == Unwrap(graph)
              a == call'.args[1]
              b == call'.args[2]
              w == call'.args[3]
              free == get_edge(g, a, b).ret # "Ok" /\ get_edge(g, b, a).ret # "Ok"
          IN /\ (call'.ret = "Ok") = free
             /\ ~free => call'.ret = "EdgeExists" /\ graph' = graph
             /\ free => /\ get_edge(Unwrap(graph'), a, b).ret = "Ok"
                         /\ get_edge(Unwrap(graph'), b, a).ret = "Ok"
                         /\ get_edge(Unwrap(graph'), a, b).val.weight = w
                         /\ get_edge(Unwrap(graph'), b, a).val.weight = w
      ]_vars

\* add_edge(1, 2, w) has just succeeded on an undirected weighted graph
C10_Witness ==
    /\ call.op = "add_edge" /\ call.ret = "Ok"
    /\ call.args[1] = 1 /\ call.args[2] = 2 /\ IsSome(call.args[3])
    /\ ~Unwrap(graph).is_directed
    /\ StoredEdges(Unwrap(graph), 2, 1) # {}

\* C11 as stated: after a successful remove_vertex(v), for every vertex id x,
\* get_edge(v, x) and get_edge(x, v) both fail with VertexNotFound (not
\* EdgeNotFound).
C11_Original ==
    (call.op = "remove_vertex" /\ call.ret = "Ok") =>
        \A x \in 1..MaxVertex :
            /\ get_edge(Unwrap(graph), call.args[1], x).ret = "VertexNotFound"
            /\ get_edge(Unwrap(graph), x, call.args[1]).ret = "VertexNotFound"

\* C11, amended: after a successful remove_vertex(v), for every vertex id x,
\* get_edge(v, x) fails with VertexNotFound, and get_edge(x, v) fails with
\* EdgeNotFound when x is still a vertex and with VertexNotFound when it is not.
C11_CascadeDelete ==
    (call.op = "remove_vertex" /\ call.ret = "Ok") =>
        \A x \in 1..MaxVertex :
            /\ get_edge(Unwrap(graph), call.args[1], x).ret = "VertexNotFound"
            /\ get_edge(Unwrap(graph), x, call.args[1]).ret =
                 (IF x \in DOMAIN Unwrap(graph).vertices THEN "EdgeNotFound"
                  ELSE "VertexNotFound")

\* remove_vertex(1) has just succeeded and vertex 2 is still there
C11_Witness ==
    /\ call.op = "remove_vertex" /\ call.ret = "Ok" /\ call.args[1] = 1
    /\ 2 \in DOMAIN Unwrap(graph).vertices
    /\ get_edge(Unwrap(graph), 2, 1).ret = "EdgeNotFound"

\* every stored edge of g joins two vertices of g
EndpointsExist(g) ==
    \A u \in DOMAIN g.edges :
        u \in DOMAIN g.vertices /\ \A e \in g.edges[u] : e.to \in DOMAIN g.vertices

\* C12: invariant I3 -- after any sequence of mutation calls on a directed or
\* undirected graph every stored edge u -> v has both u and v in the vertex
\* map; a successful remove_vertex(v) leaves no adjacency set for v and no
\* edge with target v in any other adjacency set, and leaves every edge not
\* incident to v as it was.
C12_EndpointsInvariant ==
    [][/\ IsSome(graph') => EndpointsExist(Unwrap(graph'))
       /\ (call'.op = "remove_vertex" /\ call'.ret = "Ok") =>
             LET v == call'.args[1]
                 before == Unwrap(graph).edges
                 after == Unwrap(graph').edges
             IN /\ DOMAIN after = (DOMAIN before) \ {v}
                /\ \A u \in DOMAIN after : after[u] = {e \in before[u] : e.to # v}
      ]_vars

\* remove_vertex(1) has just succeeded on a graph that keeps an edge 2 -> 2
C12_Witness ==
    /\ call.op = "remove_vertex" /\ call.ret = "Ok" /\ call.args[1] = 1
    /\ 2 \in DOMAIN Unwrap(graph).edges
    /\ StoredEdges(Unwrap(graph), 2, 2) # {}
    /\ EndpointsExist(Unwrap(graph))

\* C13: invariant I2 -- in every reachable graph every stored edge carries a
\* weight if and only if is_weighted is true; add_edge with a weight on an
\* unweighted graph fails with WeightedEdgeInUnweightedGraph and add_edge
\* without a weight on a weighted graph fails with UnweightedEdgeInWeightedGraph.
C13_WeightFlag ==
    IsSome(graph) =>
        LET g == Unwrap(graph) IN
        /\ \A u \in DOMAIN g.edges : \A e \in g.edges[u] : IsSome(e.weight) = g.is_weighted
        /\ call.op = "add_edge" =>
              /\ (IsSome(call.args[3]) /\ ~g.is_weighted)
                    => call.ret = "WeightedEdgeInUnweightedGraph"
              /\ (~IsSome(call.args[3]) /\ g.is_weighted)
                    => call.ret = "UnweightedEdgeInWeightedGraph"

\* add_edge with a weight has just failed on an unweighted graph that holds
\* an edge between the same two vertices
C13_Witness ==
    /\ call.op = "add_edge" /\ call.ret = "WeightedEdgeInUnweightedGraph"
    /\ IsSome(call.args[3])
    /\ ~Unwrap(graph).is_weighted
    /\ call.args[1] \in DOMAIN Unwrap(graph).edges
    /\ \E e \in Unwrap(graph).edges[call.args[1]] : e.to = call.args[2] /\ e.weight = None

MutationOps == {"add_vertex", "remove_vertex", "add_edge", "remove_edge"}

OperationErrors ==
    {"VertexExists", "VertexNotFound", "EdgeExists", "EdgeNotFound", "SomeVerticesNotFound",
     "WeightedEdgeInUnweightedGraph", "UnweightedEdgeInWeightedGraph"}

\* C14: strong error safety -- whenever add_vertex, remove_vertex, add_edge or
\* remove_edge returns an error, the vertex map, every adjacency set (mirrored
\* edges of an undirected graph included) and the flags are exactly as before
\* the call; and every error returned is one of the seven operation errors.
C14_ErrorSafety ==
    [][(call'.op \in MutationOps /\ call'.ret # "Ok") =>
          /\ call'.ret \in OperationErrors
          /\ graph' = graph
      ]_vars

\* add_vertex has just failed on an undirected graph that holds an edge at
\* that vertex
C14_Witness ==
    /\ call.op = "add_vertex" /\ call.ret = "VertexExists"
    /\ ~Unwrap(graph).is_directed
    /\ \E e \in Unwrap(graph).edges[call.args[1]] : e.to # call.args[1]

\* C19: add_edge applies its checks in a fixed precedence -- a weight/flag
\* mismatch is reported (WeightedEdgeInUnweightedGraph /
\* UnweightedEdgeInWeightedGraph) even when an endpoint is missing or the edge
\* already exists; SomeVerticesNotFound is reported when from or to is missing
\* and the weight matches the flag; EdgeExists is reported only when both
\* endpoints exist and the weight matches the flag.
C19_AddEdgePrecedence ==
    [][call'.op = "add_edge" =>
          LET g == Unwrap(graph)
              from == call'.args[1]
              to == call'.args[2]
              weight == call'.args[3]
              missing == from \notin DOMAIN g.vertices \/ to \notin DOMAIN g.vertices
          IN /\ (IsSome(weight) /\ ~g.is_weighted)
                   => call'.ret = "WeightedEdgeInUnweightedGraph"
             /\ (~IsSome(weight) /\ g.is_weighted)
                   => call'.ret = "UnweightedEdgeInWeightedGraph"
             /\ (IsSome(weight) = g.is_weighted /\ missing)
                   => call'.ret = "SomeVerticesNotFound"
             /\ call'.ret = "EdgeExists"
                   => /\ ~missing /\ IsSome(weight) = g.is_weighted
                      /\ StoredEdges(g, from, to) # {}
      ]_vars

\* add_edge has just reported a weight/flag mismatch although an endpoint is
\* missing
C19_Witness ==
    /\ call.op = "add_edge" /\ call.ret = "UnweightedEdgeInWeightedGraph"
    /\ Unwrap(graph).is_weighted
    /\ call.args[2] \notin DOMAIN Unwrap(graph).vertices

\* C26: a successful remove_edge(from, to) removes exactly the arc from -> to
\* and, only in an undirected graph, the mirror to -> from; the reverse arc of
\* a directed graph, every other arc, the vertices and the flags stay as they
\* were.  The call fails with SomeVerticesNotFound when from or to is not a
\* vertex and with EdgeNotFound when both are but from -> to is not stored.
C26_RemoveEdge ==
    [][call'.op = "remove_edge" =>
          LET from == call'.args[1]
              to == call'.args[2]
              g == Unwrap(graph)
              after == Unwrap(graph')
          IN /\ call'.ret =
                  (IF from \notin DOMAIN g.vertices \/ to \notin DOMAIN g.vertices
                   THEN "SomeVerticesNotFound"
                   ELSE IF StoredEdges(g, from, to) = {} THEN "EdgeNotFound" ELSE "Ok")
             /\ call'.ret = "Ok" =>
                  /\ after.vertices = g.vertices
                  /\ after.is_directed = g.is_directed
                  /\ after.is_weighted = g.is_weighted
                  /\ DOMAIN after.edges = DOMAIN g.edges
                  /\ \A u \in DOMAIN g.edges :
                        after.edges[u] =
                          {e \in g.edges[u] :
                             /\ ~(u = from /\ e.to = to)
                             /\ ~(~g.is_directed /\ u = to /\ e.to = from)}
      ]_vars

\* remove_edge(1, 2) has just succeeded on a directed graph that keeps its
\* reverse arc 2 -> 1
C26_Witness ==
    /\ call.op = "remove_edge" /\ call.ret = "Ok" /\ call.args = <<1, 2>>
    /\ Unwrap(graph).is_directed
    /\ StoredEdges(Unwrap(graph), 1, 2) = {}
    /\ StoredEdges(Unwrap(graph), 2, 1) # {}

----------------------------------------------------------------------------
(* Properties of a run of the step machine, checked under SpecFlow (any
   small graph) and SpecScenario (the scenario's graph shape).  The reference
   value of the maximum flow is the minimum cut, computed from `graph` alone. *)

\* arcs of a weighted graph as <<from, to, capacity>>
Arcs(g) == UNION {{<<u, e.to, Unwrap(e.weight)>> : e \in g.edges[u]} : u \in DOMAIN g.edges}

\* the sum of the capacities of a set of arcs, None when it exceeds i32::MAX
RECURSIVE SumCaps(_)
SumCaps(arcs) ==
    IF arcs = {} THEN Some(0)
    ELSE LET a == CHOOSE a \in arcs : TRUE
             rest == SumCaps(arcs \ {a})
         IN IF ~IsSome(rest) \/ Unwrap(rest) > I32Max - a[3] THEN None
            ELSE Some(Unwrap(rest) + a[3])

CutCapacity(g, S) == SumCaps({a \in Arcs(g) : a[1] \in S /\ a[2] \notin S})

\* the capacity of a minimum s-t cut, None when every cut exceeds i32::MAX
MinCut(g, s, t) ==
    LET cuts == {CutCapacity(g, S) : S \in {S \in SUBSET DOMAIN g.vertices : s \in S /\ t \notin S}}
        fits == {Unwrap(c) : c \in {c \in cuts : IsSome(c)}}
    IN IF fits = {} THEN None ELSE Some(CHOOSE c \in fits : \A d \in fits : c <= d)

\* the vertices joined to those of S by arcs, whatever their direction
RECURSIVE Component(_, _)
Component(g, S) ==
    LET more == S \cup {a[2] : a \in {a \in Arcs(g) : a[1] \in S}}
                  \cup {a[1] : a \in {a \in Arcs(g) : a[2] \in S}}
    IN IF more = S THEN S ELSE Component(g, more)

\* the run's source and sink are distinct vertices and no capacity is negative
FlowNetwork ==
    /\ state.data.s # state.data.t
    /\ {state.data.s, state.data.t} \subseteq DOMAIN Unwrap(graph).vertices
    /\ \A a \in Arcs(Unwrap(graph)) : a[3] >= 0

\* C1 as stated: for every directed weighted graph with non-negative integer
\* capacities and distinct vertices s, t, a run driven to Finished ends with
\* total_flow equal to the true maximum flow from s to t (the minimum cut).
C1_Original ==
    (state.tag = "Finished" /\ FlowNetwork) =>
        Some(state.data.total_flow) = MinCut(Unwrap(graph), state.data.s, state.data.t)

\* C1, amended: the same, for graphs whose capacities sum to at most i32::MAX.
C1_MaxFlow ==
    (state.tag = "Finished" /\ FlowNetwork /\ IsSome(SumCaps(Arcs(Unwrap(graph))))) =>
        Some(state.data.total_flow) = MinCut(Unwrap(graph), state.data.s, state.data.t)

\* a run has finished with the maximum flow after three augmenting paths, the
\* last of which took flow back off an arc
C1_Witness ==
    /\ state.tag = "Finished" /\ FlowNetwork
    /\ IsSome(SumCaps(Arcs(Unwrap(graph))))
    /\ run.steps = 3
    /\ Some(state.data.total_flow) = MinCut(Unwrap(graph), state.data.s, state.data.t)
    /\ \E a \in Arcs(Unwrap(graph)) :
          a[3] > 0 /\ get_edge(state.data.gf, a[1], a[2]).val.weight = Some(0)

\* the scenario itself: capacities s->a 3, s->b 2, a->b 1, a->t 2, b->t 3,
\* under every naming of s, a, b, t by the ids 1..4
ScenarioRuns ==
    {[graph |-> Some(ScenarioGraph(p, <<3, 2, 1, 2, 3>>)),
      source_text |-> to_string(p[1]), sink_text |-> to_string(p[4])] : p \in ScenarioIds}

InScenario ==
    [graph |-> graph, source_text |-> source_text, sink_text |-> sink_text] \in ScenarioRuns

\* C2 as stated: the scenario's run reaches Finished with total_flow == 4.
C2_Original == (InScenario /\ state.tag = "Finished") => state.data.total_flow = 4

\* C2, amended: the scenario's run reaches Finished with total_flow == 5, the
\* capacity of its minimum cut.
C2_ScenarioTotal ==
    (InScenario /\ state.tag = "Finished") =>
        /\ state.data.total_flow = 5
        /\ MinCut(Unwrap(graph), state.data.s, state.data.t) = Some(5)

\* the scenario's run has reached Finished
C2_Witness ==
    /\ InScenario /\ state.tag = "Finished"
    /\ call.op = "algorithm_step" /\ call.ret = "Ok"
    /\ state.data.last_flow = 0

\* C3 as stated: in every Step or Finished state of a run, total_flow equals
\* the sum of the last_flow values of all states returned so far in the run.
C3_Original ==
    state.tag \in {"Step", "Finished"} =>
        run.sum_carry = 0 /\ run.sum_low = state.data.total_flow

\* C3, amended: total_flow equals that sum computed in i32 wrapping
\* arithmetic (the sum modulo 2^32), hence the sum itself whenever it fits.
C3_WrappedSum ==
    state.tag \in {"Step", "Finished"} => run.sum_low = state.data.total_flow

\* a run in which the sum of the flows returned no longer fits an i32
C3_Witness ==
    /\ state.tag \in {"Step", "Finished"}
    /\ run.sum_carry # 0
    /\ run.sum_low = state.data.total_flow

\* C7: when s and t are vertices in different components of a directed
\* weighted graph, the run has no Step -> Step transition: the first call that
\* looks for an augmenting path returns Finished with total_flow == 0,
\* last_flow == 0 and curr_path absent.
C7_NoPath ==
    (/\ state.tag \in {"Step", "Finished"}
     /\ {state.data.s, state.data.t} \subseteq DOMAIN Unwrap(graph).vertices
     /\ state.data.t \notin Component(Unwrap(graph), {state.data.s}))
    => /\ run.steps = 0
       /\ state.data.total_flow = 0
       /\ state.data.last_flow = 0
       /\ state.data.curr_path = None

\* such a run has finished, on a graph in which s has an arc to a third vertex
C7_Witness ==
    /\ state.tag = "Finished"
    /\ state.data.t \notin Component(Unwrap(graph), {state.data.s})
    /\ Component(Unwrap(graph), {state.data.s}) # {state.data.s}
    /\ run.steps = 0

\* C4 as stated, as a property of finite runs: for every directed weighted
\* integer graph and every source and sink that are vertices of it, repeated
\* stepping eventually returns Finished -- so no run from such a source and
\* sink ends, the process aborting, in a call that returns no state at all.
C4_Original ==
    (/\ parse(source_text).val \in DOMAIN Unwrap(graph).vertices
     /\ parse(sink_text).val \in DOMAIN Unwrap(graph).vertices)
    => ~(call.op = "algorithm_step" /\ call.ret = "Panic")

----------------------------------------------------------------------------
(* Properties of the step machine under its caller, checked under Spec *)

StepCalled == call'.op = "algorithm_step"

\* C5: the only transitions a successful algorithm_step call makes are
\* NotStarted -> Step, Step -> Step, Step -> Finished and Finished -> NotStarted.
C5_Transitions ==
    [][(StepCalled /\ call'.ret = "Ok") =>
          <<state.tag, state'.tag>> \in {<<"NotStarted", "Step">>, <<"Step", "Step">>,
                                        <<"Step", "Finished">>, <<"Finished", "NotStarted">>}
      ]_vars

\* a whole cycle has been made: a successful call has just reset a run that
\* had found at least one augmenting path
C5_Witness ==
    /\ state.tag = "NotStarted"
    /\ call.op = "algorithm_step" /\ call.ret = "Ok"
    /\ IsSome(run.prev)
    /\ \E a \in Arcs(Unwrap(run.prev)) : a[3] > 0

\* the capacity and flow graphs a run starts with, read off the graph g: the
\* vertices of g; in gc every arc of g with its capacity and, for an arc of g
\* without an opposite arc in g, the opposite arc with capacity 0; in gf the
\* same arcs, all with flow 0
FreshSnapshot(data, g) ==
    /\ data.gc.vertices = g.vertices
    /\ data.gf.vertices = g.vertices
    /\ DOMAIN data.gc.edges = DOMAIN g.edges
    /\ DOMAIN data.gf.edges = DOMAIN g.edges
    /\ \A u \in DOMAIN g.edges :
          /\ data.gc.edges[u] =
                g.edges[u] \cup {Edge_new(v, Some(0)) :
                                   v \in {v \in DOMAIN g.edges :
                                            StoredEdges(g, v, u) # {} /\ StoredEdges(g, u, v) = {}}}
          /\ data.gf.edges[u] = {Edge_new(e.to, Some(0)) : e \in data.gc.edges[u]}
    /\ data.total_flow = 0 /\ data.last_flow = 0 /\ data.curr_path = None

\* C6: a call on a Finished state returns NotStarted without error whatever
\* the graph and the texts are then (an absent graph included), and the next
\* successful call, made on NotStarted, validates again and builds gc and gf
\* from the graph as it is at that call.
C6_ResetAndReread ==
    [][StepCalled =>
          /\ state.tag = "Finished" => call'.ret = "Ok" /\ state' = NotStarted
          /\ (state.tag = "NotStarted" /\ call'.ret = "Ok") =>
                /\ call'.args = <<TRUE>> /\ IsSome(graph)
                /\ Unwrap(graph).is_directed /\ Unwrap(graph).is_weighted
                /\ parse(source_text).ok /\ parse(sink_text).ok
                /\ state'.tag = "Step"
                /\ state'.data.s = parse(source_text).val
                /\ state'.data.t = parse(sink_text).val
                /\ FreshSnapshot(state'.data, Unwrap(graph))
      ]_vars

\* a run has just started whose capacity graph differs from that of the run
\* reset before it: the graph was replaced in between
C6_Witness ==
    /\ state.tag = "Step" /\ run.reread
    /\ call.op = "algorithm_step" /\ call.ret = "Ok"
    /\ FreshSnapshot(state.data, Unwrap(graph))

GraphErrors ==
    {"GraphNotExist", "GraphNotDirected", "GraphNotWeighted",
     "IncorrectArgument1", "IncorrectArgument2"}

\* C8: a call on NotStarted fails with GraphNotExist if the graph is absent,
\* otherwise with GraphNotDirected if it is undirected, otherwise with
\* GraphNotWeighted if it is unweighted, otherwise with IncorrectArgument if the
\* source or the sink text does not parse as a key, and returns Step only when
\* none of these is the case; a call on Step or Finished never returns an error.
C8_ErrorPrecedence ==
    [][StepCalled =>
          IF state.tag = "NotStarted"
          THEN call'.ret =
                 (IF ~call'.args[1] THEN "GraphNotExist"
                  ELSE IF ~Unwrap(graph).is_directed THEN "GraphNotDirected"
                  ELSE IF ~Unwrap(graph).is_weighted THEN "GraphNotWeighted"
                  ELSE IF ~parse(source_text).ok THEN "IncorrectArgument1"
                  ELSE IF ~parse(sink_text).ok THEN "IncorrectArgument2"
                  ELSE "Ok")
               /\ (call'.ret = "Ok" => state'.tag = "Step")
               /\ (call'.ret # "Ok" => state' = NotStarted)
          ELSE call'.ret \notin GraphErrors
      ]_vars

\* a call on NotStarted has failed with GraphNotDirected on a graph that is
\* unweighted as well, with a source text that does not parse
C8_Witness ==
    /\ call.op = "algorithm_step" /\ call.ret = "GraphNotDirected"
    /\ call.args = <<TRUE>>
    /\ ~Unwrap(graph).is_directed /\ ~Unwrap(graph).is_weighted
    /\ ~parse(source_text).ok

\* gc as the claim describes it for the input graph g: the vertices and flags
\* of g, every arc of g with its capacity, and an arc v -> u of capacity 0
\* exactly for the arcs u -> v of g whose reverse is not an arc of g
CapacityGraphOf(gc, g) ==
    /\ gc.vertices = g.vertices
    /\ gc.is_directed = g.is_directed /\ gc.is_weighted = g.is_weighted
    /\ DOMAIN gc.edges = DOMAIN g.edges
    /\ \A a \in Arcs(g) : get_edge(gc, a[1], a[2]).val = Edge_new(a[2], Some(a[3]))
    /\ \A u \in DOMAIN g.edges, v \in DOMAIN g.edges :
          IF StoredEdges(g, u, v) # {} THEN StoredEdges(gc, u, v) = StoredEdges(g, u, v)
          ELSE IF StoredEdges(g, v, u) # {} THEN StoredEdges(gc, u, v) = {Edge_new(v, Some(0))}
          ELSE StoredEdges(gc, u, v) = {}

\* C20: on NotStarted -> Step gc has the vertices of the input graph, every
\* input arc u -> v with its capacity and an arc v -> u of capacity ZERO exactly
\* for the input arcs u -> v whose reverse is not an input arc (a reverse arc of
\* the input keeps its capacity); later step calls never modify gc.
C20_CapacityGraph ==
    [][(StepCalled /\ call'.ret = "Ok") =>
          /\ state.tag = "NotStarted" => CapacityGraphOf(state'.data.gc, Unwrap(graph))
          /\ state.tag = "Step" => state'.data.gc = state.data.gc
      ]_vars

\* a run has found a path and finished on a graph that has an arc with a
\* reverse arc of another capacity and an arc without a reverse arc
C20_Witness ==
    /\ state.tag = "Finished" /\ state.data.total_flow > 0
    /\ CapacityGraphOf(state.data.gc, Unwrap(graph))
    /\ \E a \in Arcs(Unwrap(graph)), b \in Arcs(Unwrap(graph)) :
          a[1] = b[2] /\ a[2] = b[1] /\ a[3] # b[3]
    /\ \E a \in Arcs(Unwrap(graph)) : StoredEdges(Unwrap(graph), a[2], a[1]) = {}

\* C17: gc and gf are private snapshots -- algorithm_step never modifies the
\* caller's graph, and the result of a call on a Step state depends only on the
\* AlgorithmData it carries: it is what the call returns when no graph and
\* empty texts are passed, whatever graph (replaced since the start, or absent)
\* and whatever source and sink texts are passed.
C17_PrivateSnapshots ==
    [][StepCalled =>
          /\ graph' = graph
          /\ state.tag = "Step" =>
                LET alone == algorithm_step(state, None, <<>>, <<>>) IN
                /\ call'.ret \in {"Ok", "Panic"}
                /\ call'.ret = "Ok" => alone.kind = "Ok" /\ state' = alone.state
                /\ call'.ret = "Panic" => alone.kind = "Panic" \/ alone.ovf
      ]_vars

\* a call on a Step state has just found a path while the graph it was handed
\* is no longer the graph the run started from and the source text is empty
C17_Witness ==
    /\ state.tag = "Step" /\ state.data.last_flow > 0
    /\ call.op = "algorithm_step" /\ call.ret = "Ok"
    /\ source_text = <<>>
    /\ IsSome(graph) /\ ~CapacityGraphOf(state.data.gc, Unwrap(graph))

----------------------------------------------------------------------------
(* A reference depth-first search for C18: from vertex i with the flow bound
   `flow`, over the arcs of data.gc whose residual capacity gc - gf lets a
   non-zero flow through, neighbours tried in ascending id order, a vertex
   expanded at most once in a search.  It changes nothing and returns
   [path, flow, used]: the vertices of the path found from i to data.t (<<>>
   when there is none), its flow, and the vertices expanded so far. *)

RefNone(used) == [path |-> <<>>, flow |-> 0, used |-> used]

RefResidual(data, i, to) ==
    WrappingSub(Unwrap(get_edge(data.gc, i, to).val.weight),
                Unwrap(get_edge(data.gf, i, to).val.weight))

\* ids in ascending order
RECURSIVE Ascending(_)
Ascending(ids) ==
    IF ids = {} THEN <<>>
    ELSE LET least == CHOOSE k \in ids : \A x \in ids : k <= x
         IN <<least>> \o Ascending(ids \ {least})

RECURSIVE RefSearch(_, _, _, _), RefNeighbours(_, _, _, _, _)

RefTried(data, i, flow, todo, sub) ==
    IF sub.path # <<>> THEN [sub EXCEPT !.path = <<i>> \o sub.path]
    ELSE RefNeighbours(data, sub.used, i, flow, Tail(todo))

RefNeighbours(data, used, i, flow, todo) ==
    IF todo = <<>> THEN RefNone(used)
    ELSE RefTried(data, i, flow, todo,
                  RefSearch(data, used, Head(todo),
                            IF RefResidual(data, i, Head(todo)) < flow
                            THEN RefResidual(data, i, Head(todo)) ELSE flow))

RefSearch(data, used, i, flow) ==
    IF i = data.t
    THEN IF flow = 0 THEN RefNone(used) ELSE [path |-> <<i>>, flow |-> flow, used |-> used]
    ELSE IF flow = 0 \/ i \in used THEN RefNone(used)
    ELSE RefNeighbours(data, used \cup {i}, i, flow,
                       Ascending({e.to : e \in data.gc.edges[i]}))

\* the flow changes along a path: +flow on each of its arcs, -flow on the reverse
RefPathFlows(path, flow) ==
    LET forward == {<<path[k], path[k + 1]>> : k \in 1..(Len(path) - 1)}
        backward == {<<path[k + 1], path[k]>> : k \in 1..(Len(path) - 1)}
    IN [a \in forward \cup backward |->
          IF a \in backward THEN WrappingSub(0, flow) ELSE flow]

RefAgrees(st, ref) ==
    IF ref.path = <<>>
    THEN st.tag = "Finished" /\ st.data.curr_path = None /\ st.data.last_flow = 0
    ELSE /\ st.tag = "Step"
         /\ st.data.last_flow = ref.flow
         /\ st.data.curr_path = Some(RefPathFlows(ref.path, ref.flow))

\* C18: in each step call the DFS examines the outgoing capacity-graph arcs of
\* a vertex in ascending target-id order and stops at the first arc through
\* which the sink is reached, so the augmenting path a step applies is exactly
\* the one found by the reference depth-first search that tries neighbours in
\* ascending id order with a used-vertex set of the call.
C18_PathOrder ==
    [][(StepCalled /\ state.tag = "Step" /\ call'.ret = "Ok"
          /\ state.data.s \in DOMAIN state.data.gc.edges) =>
          RefAgrees(state', RefSearch(state.data, {}, state.data.s, I32Max))
      ]_vars

\* a step has applied a path of three arcs on a graph of the scenario's shape
C18_Witness ==
    /\ state.tag = "Step" /\ IsSome(state.data.curr_path)
    /\ Cardinality(DOMAIN Unwrap(state.data.curr_path)) = 6
    /\ Cardinality(DOMAIN state.data.gc.vertices) = 4

----------------------------------------------------------------------------
(* Effects of one step call, checked under SpecFlow against the reference
   search: ref is what the reference search finds in the state before the call. *)

\* the weight stored on the arc u -> v of g
FlowOf(g, u, v) == Unwrap((CHOOSE e \in g.edges[u] : e.to = v).weight)

\* a call on a Step state whose source is a vertex of the run's graphs
StepOnStep ==
    /\ StepCalled /\ state.tag = "Step"
    /\ state.data.s \in DOMAIN state.data.gc.edges

RefFound == RefSearch(state.data, {}, state.data.s, I32Max)

\* the change of flow on u -> v when `flow` is sent along `path`
PathDelta(path, flow, u, v) ==
    IF <<u, v>> \in DOMAIN RefPathFlows(path, flow) THEN RefPathFlows(path, flow)[<<u, v>>]
    ELSE 0

\* gf after the call is gf before it with the path's changes added in i32
\* wrapping arithmetic, arc by arc; exact says that no addition overflowed
FlowApplied(before, after, path, flow) ==
    /\ after.vertices = before.vertices
    /\ DOMAIN after.edges = DOMAIN before.edges
    /\ \A u \in DOMAIN before.edges :
          /\ {e.to : e \in after.edges[u]} = {e.to : e \in before.edges[u]}
          /\ Cardinality(after.edges[u]) = Cardinality(before.edges[u])
          /\ \A e \in before.edges[u] :
                FlowOf(after, u, e.to) =
                  WrappingAdd(FlowOf(before, u, e.to), PathDelta(path, flow, u, e.to))

FlowExact(before, path, flow) ==
    \A u \in DOMAIN before.edges : \A e \in before.edges[u] :
        ~AddOverflows(FlowOf(before, u, e.to), PathDelta(path, flow, u, e.to))

\* C21 as stated: when a step call on a Step state finds a path with flow
\* f != ZERO, the call returns Step, gf[i -> to] is f more and gf[to -> i] is f
\* less than before for every arc of the path, every other gf arc is as it was,
\* curr_path is exactly +f / -f on these arcs, last_flow == f and total_flow is
\* f more than before.  Read for distinct source and sink, where the path has
\* an arc.
C21_Original ==
    [][(StepOnStep /\ state.data.s # state.data.t /\ RefFound.path # <<>>) =>
          /\ call'.ret = "Ok" /\ state'.tag = "Step"
          /\ FlowApplied(state.data.gf, state'.data.gf, RefFound.path, RefFound.flow)
          /\ FlowExact(state.data.gf, RefFound.path, RefFound.flow)
          /\ state'.data.curr_path = Some(RefPathFlows(RefFound.path, RefFound.flow))
          /\ state'.data.last_flow = RefFound.flow
          /\ ~AddOverflows(state.data.total_flow, RefFound.flow)
          /\ state'.data.total_flow = WrappingAdd(state.data.total_flow, RefFound.flow)
      ]_vars

\* C21, amended: the same in i32 arithmetic.  The call returns Step unless an
\* addition or subtraction overflowed in a debug build, where it panics; in a
\* release build the sums wrap.
C21_PathApplied ==
    [][(StepOnStep /\ RefFound.path # <<>>) =>
          /\ call'.ret \in {"Ok", "Panic"}
          /\ call'.ret = "Panic" => build' = "debug"
          /\ call'.ret = "Ok" =>
                /\ state'.tag = "Step"
                /\ FlowApplied(state.data.gf, state'.data.gf, RefFound.path, RefFound.flow)
                /\ state'.data.curr_path = Some(RefPathFlows(RefFound.path, RefFound.flow))
                /\ state'.data.last_flow = RefFound.flow
                /\ state'.data.total_flow = WrappingAdd(state.data.total_flow, RefFound.flow)
                /\ state'.data.gc = state.data.gc
                /\ (build' # "release" /\ build = "any") =>
                      /\ FlowExact(state.data.gf, RefFound.path, RefFound.flow)
                      /\ ~AddOverflows(state.data.total_flow, RefFound.flow)
      ]_vars

\* a step has just sent flow along an arc that carried flow already
C21_Witness ==
    /\ state.tag = "Step" /\ call.op = "algorithm_step" /\ call.ret = "Ok"
    /\ IsSome(state.data.curr_path)
    /\ \E a \in DOMAIN Unwrap(state.data.curr_path) :
          /\ Unwrap(state.data.curr_path)[a] > 0
          /\ FlowOf(state.data.gf, a[1], a[2]) > Unwrap(state.data.curr_path)[a]

\* what C22 says of the state a call returns
Untouched ==
    /\ state'.tag = "Finished"
    /\ state'.data.curr_path = None
    /\ state'.data.last_flow = 0
    /\ state'.data.gf = state.data.gf
    /\ state'.data.gc = state.data.gc
    /\ state'.data.total_flow = state.data.total_flow
    /\ state'.data.s = state.data.s /\ state'.data.t = state.data.t

SameEndsStep == StepCalled /\ state.tag = "Step" /\ state.data.s = state.data.t

\* C24 as stated: when s == t every step call on a Step state returns Step with
\* last_flow == i32::MAX, an empty curr_path, gf unchanged and total_flow
\* i32::MAX more than before.
C24_Original ==
    [][SameEndsStep =>
          /\ call'.ret = "Ok" /\ state'.tag = "Step"
          /\ state'.data.last_flow = I32Max
          /\ state'.data.curr_path = Some(EmptyMap)
          /\ state'.data.gf = state.data.gf
          /\ ~AddOverflows(state.data.total_flow, I32Max)
          /\ state'.data.total_flow = WrappingAdd(state.data.total_flow, I32Max)
      ]_vars

\* what the code does when s == t: a step call on a Step state returns Step with
\* last_flow == i32::MAX, an empty curr_path, gf and gc unchanged and total_flow
\* increased by i32::MAX in i32 arithmetic.  From the second call on the sum
\* can overflow: then a debug build panics and a release build wraps.
SourceIsSinkStep ==
    [][SameEndsStep =>
          /\ call'.ret \in {"Ok", "Panic"}
          /\ call'.ret = "Panic" <=>
                (AddOverflows(state.data.total_flow, I32Max) /\ build' = "debug")
          /\ call'.ret = "Ok" =>
                /\ state'.tag = "Step"
                /\ state'.data.last_flow = I32Max
                /\ state'.data.curr_path = Some(EmptyMap)
                /\ state'.data.gf = state.data.gf
                /\ state'.data.gc = state.data.gc
                /\ state'.data.total_flow = WrappingAdd(state.data.total_flow, I32Max)
                /\ AddOverflows(state.data.total_flow, I32Max) => build' = "release"
      ]_vars

----------------------------------------------------------------------------
(* Properties of the paths and the flow graph, checked under SpecWide (graphs
   with a two-way arc, weights of either sign and up to i32::MAX) *)

\* a step call on a Step state of a run between distinct vertices has returned Step
PathFound ==
    /\ StepOnStep /\ state.data.s # state.data.t
    /\ call'.ret = "Ok" /\ state'.tag = "Step"

NonNegative(g) == \A a \in Arcs(g) : a[3] >= 0

\* the arcs a step recorded with the flow it found
ForwardArcs(data) ==
    {a \in DOMAIN Unwrap(data.curr_path) : Unwrap(data.curr_path)[a] = data.last_flow}

\* arcs is the arc set of a path from v to t that enters no vertex of seen
RECURSIVE SimplePath(_, _, _, _)
SimplePath(arcs, v, t, seen) ==
    IF v = t THEN arcs = {}
    ELSE LET out == {a \in arcs : a[1] = v} IN
         /\ Cardinality(out) = 1
         /\ \A a \in out : a[2] \notin seen /\ SimplePath(arcs \ out, a[2], t, seen \cup {a[2]})

\* the residual capacity of u -> v fits an i32 and is positive
ResidualPositive(data, u, v) ==
    /\ ~SubOverflows(FlowOf(data.gc, u, v), FlowOf(data.gf, u, v))
    /\ FlowOf(data.gc, u, v) - FlowOf(data.gf, u, v) > 0

\* what C23 says of a step that has found a path
PathIsSound ==
    /\ SimplePath(ForwardArcs(state'.data), state.data.s, state.data.t, {state.data.s})
    /\ \A a \in ForwardArcs(state'.data) :
          /\ ResidualPositive(state.data, a[1], a[2])
          /\ RefResidual(state.data, a[1], a[2]) >= state'.data.last_flow
    /\ \E a \in ForwardArcs(state'.data) :
          RefResidual(state.data, a[1], a[2]) = state'.data.last_flow

\* C23 as stated: for non-negative integer capacities and s != t, the arcs
\* recorded by a successful step form a simple path from s to t, every arc of
\* it had strictly positive residual capacity gc - gf before the step, and
\* last_flow is the minimum of those residual capacities.
C23_Original ==
    [][(PathFound /\ NonNegative(Unwrap(graph))) => PathIsSound]_vars

\* C23, amended: the same as long as no i32 addition or subtraction of the run
\* has overflowed.
C23_SimplePath ==
    [][(PathFound /\ NonNegative(Unwrap(graph)) /\ build' # "release") => PathIsSound]_vars

\* a step has found a path of three arcs whose flow 1 is less than i32::MAX, the
\* capacity of one of its arcs, in a run without overflow
C23_Witness ==
    /\ state.tag = "Step" /\ IsSome(state.data.curr_path) /\ build = "any"
    /\ NonNegative(Unwrap(graph))
    /\ state.data.last_flow = 1
    /\ Cardinality(ForwardArcs(state.data)) = 3
    /\ \E a \in ForwardArcs(state.data) : FlowOf(state.data.gc, a[1], a[2]) = I32Max

----------------------------------------------------------------------------
(* Properties of text files, checked under SpecFile and SpecLoad *)

\* a load of the text that the call before it saved
LoadsSaved ==
    /\ call.op = "save_file" /\ call.ret = "Ok"
    /\ call'.op = "load_file" /\ call'.args = call.args

\* labels that are one token of a line: not empty, no whitespace
PlainLabel(label) ==
    ~IsSome(label) \/
      (Unwrap(label) # <<>> /\ \A k \in 1..Len(Unwrap(label)) : Unwrap(label)[k] \notin Whitespace)
PlainLabels(g) == \A i \in DOMAIN g.vertices : PlainLabel(g.vertices[i].label)

\* C15 (as claimed): loading the text produced by saving a graph built by
\* mutation calls succeeds and yields the same graph: the same flags, vertex
\* ids, label strings, stored edge records and weights.
C15_Original ==
    [][LoadsSaved => (call'.ret = "Ok" /\ graph' = graph)]_vars

\* the part of the round trip that the code keeps: graphs whose labels are
\* absent or a single token
RoundTripPlainLabels ==
    [][(LoadsSaved /\ PlainLabels(Unwrap(graph))) => (call'.ret = "Ok" /\ graph' = graph)]_vars

\* an undirected weighted graph with a labelled vertex and an edge between two
\* vertices, stored on both sides, has been saved and loaded back
RoundTripWitness ==
    /\ call.op = "load_file" /\ call.ret = "Ok" /\ IsSome(graph)
    /\ call.args = <<to_file(Unwrap(graph))>>
    /\ ~Unwrap(graph).is_directed /\ Unwrap(graph).is_weighted
    /\ \E i \in DOMAIN Unwrap(graph).vertices : IsSome(Unwrap(graph).vertices[i].label)
    /\ DOMAIN Unwrap(graph).vertices = {1, 2}
    /\ StoredEdges(Unwrap(graph), 1, 2) # {} /\ StoredEdges(Unwrap(graph), 2, 1) # {}

\* the markers appear in the text, 'vertices' before 'edges'
MarkersInOrder(text) ==
    \E j \in 1..Len(text), k \in 1..Len(text) :
        j < k /\ text[j] = vertices_str /\ text[k] = edges_str

\* a load whose header line was accepted and whose next line is not 'vertices'
\* fails with WrongParsingVerticesStart
VerticesMarkerChecked ==
    [][(call'.op = "load_file" /\ Len(call'.args[1]) >= 2
          /\ parser_new_graph(split_ascii_whitespace(call'.args[1][1]), None).ret = "Ok"
          /\ call'.args[1][2] # vertices_str)
         => call'.ret = "WrongParsingVerticesStart"]_vars

\* a load of a text that lacks a marker is rejected
MarkersRequired ==
    [][(call'.op = "load_file" /\ ~MarkersInOrder(call'.args[1])) => call'.ret # "Ok"]_vars

\* C16 (as claimed): both marker lines are required, 'vertices' before 'edges':
\* a text that lacks either is rejected, and a line other than 'vertices' after
\* the header is rejected with WrongParsingVerticesStart.
C16_Original ==
    [][/\ (call'.op = "load_file" /\ ~MarkersInOrder(call'.args[1])) => call'.ret # "Ok"
       /\ (call'.op = "load_file" /\ Len(call'.args[1]) >= 2
             /\ parser_new_graph(split_ascii_whitespace(call'.args[1][1]), None).ret = "Ok"
             /\ call'.args[1][2] # vertices_str)
            => call'.ret = "WrongParsingVerticesStart"
      ]_vars

----------------------------------------------------------------------------
(* Progress of a run, checked under SpecWide *)

\* what C25 says of a step that has found a path
Progress ==
    /\ state'.data.last_flow > 0
    /\ ~AddOverflows(state.data.total_flow, state'.data.last_flow)
    /\ state'.data.total_flow > state.data.total_flow
    /\ run'.steps <= state'.data.total_flow

\* C25 as stated: for every integer-weighted directed graph, whatever the sign
\* of its weights, and s != t, every step call that returns Step from a Step
\* state has last_flow > ZERO, so total_flow grows on each Step -> Step
\* transition and the number of these transitions never exceeds total_flow.
C25_Original ==
    [][PathFound => Progress]_vars

\* the same holds for graphs without negative weights, as long as no i32
\* addition or subtraction of the run has overflowed
ProgressNonNegative ==
    [][(PathFound /\ NonNegative(Unwrap(graph)) /\ build' # "release") => Progress]_vars

----------------------------------------------------------------------------
(* Internal lookups, checked under Spec *)

\* C27 as stated: for an existing directed weighted graph and source and sink
\* texts that parse as vertex keys, whether or not they name vertices of the
\* graph, no lookup that algorithm_step makes on gc or gf fails: a call that
\* panics does so on an arithmetic overflow of a debug build only.
C27_Original ==
    [][(StepCalled /\ call'.ret = "Panic") => build' = "debug"]_vars

\* the lookups do succeed in every run whose source is a vertex of the graph
\* it started from or is the sink
LookupsOfVertexSource ==
    [][(StepCalled /\ call'.ret = "Panic" /\ build' # "debug") =>
          /\ state.tag = "Step"
          /\ state.data.s \notin DOMAIN state.data.gc.vertices
          /\ state.data.s # state.data.t
      ]_vars

----------------------------------------------------------------------------
(* Invariants of the flow graph, checked under SpecFlow and SpecWide *)

InRun == state.tag \in {"Step", "Finished"}

\* gf and gc have the same vertices and the same arcs, with every arc's reverse
SameArcs(gc, gf) ==
    /\ DOMAIN gf.vertices = DOMAIN gc.vertices
    /\ DOMAIN gf.edges = DOMAIN gc.edges
    /\ DOMAIN gc.edges = DOMAIN gc.vertices
    /\ \A u \in DOMAIN gc.edges :
          /\ {e.to : e \in gf.edges[u]} = {e.to : e \in gc.edges[u]}
          /\ Cardinality(gf.edges[u]) = Cardinality(gc.edges[u])
          /\ \A e \in gc.edges[u] :
                /\ e.to \in DOMAIN gc.edges
                /\ u \in {r.to : r \in gc.edges[e.to]}
                /\ IsSome(e.weight)
          /\ \A e \in gf.edges[u] : IsSome(e.weight)

\* C28 as stated: in every Step and Finished state gf and gc have the same
\* vertex set and the same arc set, closed under reversal, the flows of an arc
\* u -> v, u # v, and of its reverse sum to ZERO, and a self-loop carries ZERO.
C28_Original ==
    InRun =>
      /\ SameArcs(state.data.gc, state.data.gf)
      /\ \A u \in DOMAIN state.data.gf.edges : \A e \in state.data.gf.edges[u] :
            /\ ~AddOverflows(FlowOf(state.data.gf, u, e.to), FlowOf(state.data.gf, e.to, u))
            /\ u # e.to => FlowOf(state.data.gf, u, e.to) + FlowOf(state.data.gf, e.to, u) = 0
            /\ u = e.to => FlowOf(state.data.gf, u, u) = 0

\* C28, amended: the same with the sum taken in i32 wrapping arithmetic; the
\* sum is ZERO exactly as long as no operation of the run has overflowed.
C28_SkewSymmetry ==
    InRun =>
      /\ SameArcs(state.data.gc, state.data.gf)
      /\ \A u \in DOMAIN state.data.gf.edges : \A e \in state.data.gf.edges[u] :
            /\ u # e.to =>
                  WrappingAdd(FlowOf(state.data.gf, u, e.to), FlowOf(state.data.gf, e.to, u)) = 0
            /\ u = e.to => FlowOf(state.data.gf, u, u) = 0
            /\ build # "release" =>
                  ~AddOverflows(FlowOf(state.data.gf, u, e.to), FlowOf(state.data.gf, e.to, u))

\* a run that has pushed flow through the vertex with the self-loop, without any
\* overflow: an arc carries a positive flow, its reverse the opposite flow, and
\* the self-loop still carries none
C28_Witness ==
    /\ InRun
    /\ build = "any"
    /\ state.data.total_flow > 0
    /\ \E u \in DOMAIN state.data.gf.edges :
          /\ u \in {e.to : e \in state.data.gf.edges[u]}
          /\ FlowOf(state.data.gf, u, u) = 0
          /\ \E e \in state.data.gf.edges[u] :
                /\ e.to # u
                /\ FlowOf(state.data.gf, u, e.to) > 0
                /\ FlowOf(state.data.gf, e.to, u) = 0 - FlowOf(state.data.gf, u, e.to)

\* the flow of every arc of gc is at most the arc's capacity
WithinCapacity(data) ==
    \A u \in DOMAIN data.gc.edges : \A e \in data.gc.edges[u] :
        FlowOf(data.gf, u, e.to) <= Unwrap(e.weight)

CapacityCase == InRun /\ NonNegative(Unwrap(graph)) /\ state.data.s # state.data.t

\* C29 as stated: for non-negative integer capacities and s # t, in every Step
\* and Finished state every arc u -> v of gc has gf[u->v] <= gc[u->v]: the flow
\* of an arc never exceeds its capacity, that is, no residual capacity is negative.
C29_Original == CapacityCase => WithinCapacity(state.data)

\* C29, amended: the same as long as no i32 addition or subtraction of the run
\* has overflowed.
C29_CapacityConstraint == (CapacityCase /\ build # "release") => WithinCapacity(state.data)

\* a finished run without overflow that has filled an arc of positive capacity
\* and has left another arc of positive capacity with less flow than it can carry
C29_Witness ==
    /\ CapacityCase
    /\ state.tag = "Finished"
    /\ build = "any"
    /\ state.data.total_flow > 0
    /\ \E u \in DOMAIN state.data.gc.edges : \E e \in state.data.gc.edges[u] :
          Unwrap(e.weight) > 0 /\ FlowOf(state.data.gf, u, e.to) = Unwrap(e.weight)
    /\ \E u \in DOMAIN state.data.gc.edges : \E e \in state.data.gc.edges[u] :
          /\ Unwrap(e.weight) > 0
          /\ FlowOf(state.data.gf, u, e.to) > 0
          /\ FlowOf(state.data.gf, u, e.to) < Unwrap(e.weight)

----------------------------------------------------------------------------
(* Flow conservation, checked under SpecFlow and SpecWide.  A sum of flows can
   leave the i32 range although every flow is in it, so the exact sum is kept
   as a pair <<hi, lo>> that stands for hi * Half + lo. *)

\* 2^16: Half * Half is 2^32, the modulus of i32 arithmetic
Half == (I32Max \div 32768) + 1

Hi(x) == IF x >= 0 THEN x \div Half ELSE 0 - ((((0 - (x + 1)) \div Half)) + 1)
Lo(x) == x - Hi(x) * Half

\* the flows of the arcs leaving u, in the set's order
OutFlows(gf, u) ==
    LET es == SetIter(gf.edges[u]) IN [k \in 1..Len(es) |-> Unwrap(es[k].weight)]

RECURSIVE ExactSum(_)
ExactSum(ws) ==
    IF ws = <<>> THEN <<0, 0>>
    ELSE LET rest == ExactSum(Tail(ws)) IN <<rest[1] + Hi(Head(ws)), rest[2] + Lo(Head(ws))>>

IsZero(pair) == pair[2] % Half = 0 /\ pair[1] + pair[2] \div Half = 0

ExactEq(pair, x) == IsZero(<<(pair[1] - Hi(x)) - 1, (pair[2] - Lo(x)) + Half>>)

RECURSIVE WrappedSum(_)
WrappedSum(ws) == IF ws = <<>> THEN 0 ELSE WrappingAdd(Head(ws), WrappedSum(Tail(ws)))

ConservationCase == InRun /\ state.data.s # state.data.t

Inner(data) == DOMAIN data.gf.edges \ {data.s, data.t}

\* the net flow out of every vertex other than s and t is zero, the net flow
\* out of s is total_flow and the net flow out of t is its opposite
Conserved(data) ==
    /\ \A v \in Inner(data) : IsZero(ExactSum(OutFlows(data.gf, v)))
    /\ data.s \in DOMAIN data.gf.edges =>
          ExactEq(ExactSum(OutFlows(data.gf, data.s)), data.total_flow)
    /\ data.t \in DOMAIN data.gf.edges =>
          IsZero(ExactSum(<<data.total_flow>> \o OutFlows(data.gf, data.t)))

\* the same with every sum taken in i32 wrapping arithmetic
ConservedWrapping(data) ==
    /\ \A v \in Inner(data) : WrappedSum(OutFlows(data.gf, v)) = 0
    /\ data.s \in DOMAIN data.gf.edges =>
          WrappedSum(OutFlows(data.gf, data.s)) = data.total_flow
    /\ data.t \in DOMAIN data.gf.edges =>
          WrappingAdd(WrappedSum(OutFlows(data.gf, data.t)), data.total_flow) = 0

\* C30 as stated: for s # t, in every Step and Finished state the flows of the
\* arcs leaving a vertex other than s and t sum to ZERO, and total_flow is the
\* sum of the flows of the arcs leaving s and the opposite of the sum of the
\* flows of the arcs leaving t.
C30_Original == ConservationCase => Conserved(state.data)

\* C30, amended: the sums are as stated in i32 wrapping arithmetic, and exactly
\* as long as no i32 addition or subtraction of the run has overflowed.
C30_FlowConservation ==
    ConservationCase =>
      /\ ConservedWrapping(state.data)
      /\ build # "release" => Conserved(state.data)

\* a run without overflow that has sent flow through an inner vertex: an arc
\* leaving it carries a positive flow, and the source sends out total_flow > 0
C30_Witness ==
    /\ ConservationCase
    /\ build = "any"
    /\ state.data.total_flow > 0
    /\ state.data.s \in DOMAIN state.data.gf.edges
    /\ state.data.t \in DOMAIN state.data.gf.edges
    /\ \E v \in Inner(state.data) : \E e \in state.data.gf.edges[v] :
          Unwrap(e.weight) > 0 /\ e.to # state.data.s

====
